---------------------------- MODULE Spec2Model ----------------------------
(*************************************************************************)
(* A model of the geometry kernels of mne/viz/backends/_ipyvolume.py:    *)
(* the isoline extractor _isoline and the sphere tessellator             *)
(* _create_sphere with its caller _Renderer.sphere, and of the backend   *)
(* selection of mne/viz/backends/renderer.py.                            *)
(*                                                                       *)
(* Conventions.                                                          *)
(*  - A 2-D numpy array is a record [ncol, row]: shape[1] and the        *)
(*    sequence of its rows.  A 1-D array is a sequence.  Array indices   *)
(*    are 0-based as in the code: index k names element k + 1.           *)
(*  - isinstance(x, np.ndarray) is the function is_ndarray.              *)
(*  - None is the empty tuple and an array value a is <<a>> (Some).      *)
(*  - Scalars and levels are fixed-point numbers in units of 1/2, so     *)
(*    that the level 0.5 of the documented example is the integer 1.     *)
(*    Quotients are exact rationals <<n, d>> with d > 0 in lowest terms; *)
(*    <<0,0>> is nan and <<1,0>>, <<-1,0>> are +inf, -inf, the values    *)
(*    numpy yields for a division by zero.  Floating-point rounding is   *)
(*    not modelled.                                                      *)
(*************************************************************************)
EXTENDS Integers, Sequences, FiniteSets, TLC

VARIABLES
    is_ndarray,    \* _isoline: isinstance(x, np.ndarray) per argument
    vertices,      \* _isoline argument, shape (Nv, ncol)
    tris,          \* _isoline argument, shape (Nf, ncol)
    vertex_data,   \* _isoline argument, shape (Nv,)
    levels,        \* _isoline argument, shape (Nl,)
    pc,            \* position in _isoline: idle, call, loop, returned, raised
    exc,           \* the exception _isoline raised, or "none"
    edges,         \* _isoline local: (3 Nf, 2) vertex-index pairs
    lev_i,         \* number of levels the for loop has consumed
    index,         \* _isoline local: the selection mask of the last level
    lines,         \* _isoline result: None or the points
    connects,      \* _isoline result: None or the index pairs
    vertex_level,  \* _isoline result (_ipyvolume/_renderer.py): level tags
    sph_pc,        \* position in sphere / _create_sphere
    caller,        \* who called _create_sphere: "sphere" or "direct"
    rows,          \* _create_sphere argument
    cols,          \* _create_sphere argument
    verts,         \* _create_sphere: the vertices kept
    faces,         \* _create_sphere: the uint32 triangle array
    row_i,         \* rows the `for row in range(rows)` loop has consumed
    center,        \* sphere argument: the centers, shape (n_center, 3)
    center_i,      \* centers the `for c in center` loop has consumed
    voffset,       \* sphere local
    foffset,       \* sphere local
    acc_vertices,  \* sphere local: shape (n_center * n_vertices, 3)
    acc_faces,     \* sphere local: uint32, shape (n_center * n_faces, 3)
    MNE_3D_BACKEND,       \* renderer.py global: None (unbound) or the name
    TEST_MNE_3D_BACKEND,  \* renderer.py global: None (unbound) or the flag
    Renderer,      \* renderer.py: the backend whose _Renderer is bound
    environ,       \* os.environ['MNE_3D_BACKEND']: None (unset) or the value
    installed,     \* the backends whose module can be imported
    mocked,        \* tests: the fixture backend_mocker is between its halves
    last_call,     \* the last operation on renderer.py and how it ended
    ctx_stack,     \* the use_3d_backend contexts whose body runs: old_backend
    brain_data,    \* _timeviewer.py: brain._data['fmin'], ['fmid'], ['fmax']
    slider_rep,    \* the values shown by the fmin, fmid, fmax sliders
    last_update,   \* BumpColorbarPoints.last_update of the three callbacks
    now,           \* time.time(), in units of 1/60 s
    cb_last,       \* the last BumpColorbarPoints call: name, value, applied
    time_data,     \* brain._data['time'], the time axis
    current_time,  \* brain._current_time
    time_idx,      \* brain._data['time_idx']
    time_rep,      \* the value shown by the time slider
    playback,      \* _TimeViewer.playback
    playback_speed,
    last_tick,     \* _TimeViewer._last_tick, None while the attribute is unset
    pb_last,       \* the last playback callback: op, the index passed to
                   \* brain.set_time_point, the exception raised
    self_vmin,     \* _ipyvolume.py: _Renderer.vmin, in units of 1/2
    self_vmax,     \* _Renderer.vmax
    plotted,       \* the coordinates handed to ipyvolume so far
    qpos,          \* the caller's arrays x, y, z given to quiver3d
    qdir,          \* the caller's arrays u, v, w given to quiver3d
    n_calls,       \* the number of calls made on the renderer
    rn_last        \* the last call on the renderer: op, scale, exception

isoVars == <<is_ndarray, vertices, tris, vertex_data, levels, pc, exc,
             edges, lev_i, index, lines, connects, vertex_level>>

sphVars == <<sph_pc, caller, rows, cols, verts, faces, row_i, center,
             center_i, voffset, foffset, acc_vertices, acc_faces>>

bkVars == <<MNE_3D_BACKEND, TEST_MNE_3D_BACKEND, Renderer, environ,
            installed, mocked, last_call, ctx_stack>>

cbVars == <<brain_data, slider_rep, last_update, now, cb_last>>

pbVars == <<time_data, current_time, time_idx, time_rep, playback,
            playback_speed, last_tick, pb_last>>

rnVars == <<self_vmin, self_vmax, plotted, qpos, qdir, n_calls, rn_last>>

vars == <<isoVars, sphVars, bkVars, cbVars, pbVars, rnVars>>

--------------------------------------------------------------------------
(* Bounds of the checked input space.                                    *)

MaxTris == 2
MaxLevels == 2
MaxRows == 3
MaxCols == 4
MaxCenters == 2
MaxClock == 3
MaxDepth == 2
MaxGlyphs == 1
MaxPoints == 1
MaxCalls == 3

--------------------------------------------------------------------------
(* Values.                                                               *)

None == <<>>
Some(a) == <<a>>
IsNone(x) == x = <<>>
Val(x) == x[1]

\* the sequences over S of length at most n
SeqsUpTo(S, n) == UNION {[1..m -> S] : m \in 0..n}

ArgNames == {"vertices", "tris", "vertex_data", "levels"}

Abs(n) == IF n < 0 THEN -n ELSE n

RECURSIVE GCD(_, _)
GCD(a, b) == IF b = 0 THEN a ELSE GCD(b, a % b)

Sign(n) == IF n > 0 THEN 1 ELSE IF n < 0 THEN -1 ELSE 0

\* numpy's float division n / d
Div(n, d) ==
    IF d = 0 THEN <<Sign(n), 0>>
    ELSE LET g == GCD(Abs(n), Abs(d))
         IN  <<(Sign(d) * n) \div g, Abs(d) \div g>>

\* a + r * b for integers a, b and a quotient r (nan and inf propagate)
AddMul(a, r, b) ==
    IF r[2] = 0
    THEN <<IF b = 0 THEN 0 ELSE r[1] * Sign(b), 0>>
    ELSE Div(a * r[2] + r[1] * b, r[2])

--------------------------------------------------------------------------
(* _isoline: pure parts.                                                 *)

\* _check_vertices_shape(vertices): the (N, 3) view of the vertices, or None
CheckVerticesShape(v) ==
    IF v.ncol <= 3 THEN Some(v)
    ELSE IF v.ncol = 4
         THEN Some([ncol |-> 3,
                    row |-> [k \in 1..Len(v.row) |-> SubSeq(v.row[k], 1, 3)]])
         ELSE None

\* the entries taken column by column (Fortran order)
FlattenColumnMajor(a) ==
    [e \in 1..(Len(a.row) * a.ncol) |->
        a.row[((e - 1) % Len(a.row)) + 1][((e - 1) \div Len(a.row)) + 1]]

\* a.reshape((-1)): the entries of a 2-D array, row-major
Flatten(a) ==
    [e \in 1..(Len(a.row) * a.ncol) |->
        a.row[((e - 1) \div a.ncol) + 1][((e - 1) % a.ncol) + 1]]

\* np.roll(a, -1) without the axis: the flattened array rotated left by one
RollFlat(a) ==
    [ncol |-> a.ncol,
     row |-> [k \in 1..Len(a.row) |->
                 [c \in 1..a.ncol |->
                     Flatten(a)[(((k - 1) * a.ncol + c)
                                    % (Len(a.row) * a.ncol)) + 1]]]]

\* np.roll(a, -1, axis=1): every row rotated left by one
Roll(a) ==
    [ncol |-> a.ncol,
     row |-> [k \in 1..Len(a.row) |->
                 [c \in 1..a.ncol |-> a.row[k][(c % a.ncol) + 1]]]]

\* np.vstack((tris.reshape(-1), np.roll(tris, -1, axis=1).reshape(-1))).T
Edges(t) ==
    LET a == Flatten(t)
        b == Flatten(Roll(t))
    IN  [e \in 1..Len(a) |-> <<a[e], b[e]>>]

\* vertex_data[edges]
EdgeDatas(vd, ed) ==
    [e \in 1..Len(ed) |-> <<vd[ed[e][1] + 1], vd[ed[e][2] + 1]>>]

\* verts[edges].reshape(tris.shape[0] * 3, 2, 3)
EdgeCoors(vs, ed) ==
    [e \in 1..Len(ed) |-> <<vs.row[ed[e][1] + 1], vs.row[ed[e][2] + 1]>>]

\* the test with > in place of >=
CrossingStrict(d, lev) == (d[1] > lev) # (d[2] > lev)

\* the test with | in place of ^
CrossingOr(d, lev) == (d[1] >= lev) \/ (d[2] >= lev)

\* the test with > on the second endpoint only
CrossingMixed(d, lev) == (d[1] >= lev) # (d[2] > lev)

\* the test with == in place of ^
CrossingSame(d, lev) == (d[1] >= lev) = (d[2] >= lev)

\* one entry of index: (edge_datas >= lev)[:, 0] ^ (edge_datas >= lev)[:, 1]
Crossing(d, lev) == (d[1] >= lev) # (d[2] >= lev)

\* index, the selection mask over the edges
Index(ed, lev) == [e \in 1..Len(ed) |-> Crossing(ed[e], lev)]

\* the mask not applied: every entry kept
MaskedAll(a, mask) == a

\* a[index]: the entries of a the mask selects, in order
Masked(a, mask) ==
    LET RECURSIVE Go(_)
        Go(e) == IF e > Len(a) THEN <<>>
                 ELSE (IF mask[e] THEN <<a[e]>> ELSE <<>>) \o Go(e + 1)
    IN  Go(1)

\* the ratio measured from the second endpoint
RatioSwapped(d, lev) == Div(lev - d[2], d[1] - d[2])

\* one entry of ratio: (lev - d[0]) / (d[1] - d[0])
Ratio(d, lev) == Div(lev - d[1], d[2] - d[1])

\* the interpolation started at the second endpoint
InterpFromEnd(xyz, r) ==
    [c \in 1..3 |-> AddMul(xyz[2][c], r, xyz[1][c] - xyz[2][c])]

\* one row of point: xyz[0] + ratio * (xyz[1] - xyz[0])
Interp(xyz, r) ==
    [c \in 1..3 |-> AddMul(xyz[1][c], r, xyz[2][c] - xyz[1][c])]

\* point: the crossing points of one level, in edge order
Point(vs, vd, ed, lev) ==
    LET mask == Index(EdgeDatas(vd, ed), lev)
        edge_datas_Ok == Masked(EdgeDatas(vd, ed), mask)
        xyz == Masked(EdgeCoors(vs, ed), mask)
    IN  [k \in 1..Len(xyz) |-> Interp(xyz[k], Ratio(edge_datas_Ok[k], lev))]

\* the pairs without the offset len(lines)
ConnectNoOffset(nbr, off) ==
    [k \in 1..nbr |-> <<2 * (k - 1), 2 * (k - 1) + 1>>]

\* np.arange(0, nbr * 2).reshape((nbr, 2)) + off
Connect(nbr, off) ==
    [k \in 1..nbr |-> <<off + 2 * (k - 1), off + 2 * (k - 1) + 1>>]

\* the tags without the level added: np.zeros(len(point))
TagsZeros(n, lev) == [k \in 1..n |-> 0]

\* np.zeros(len(point)) + lev
Tags(n, lev) == [k \in 1..n |-> lev]

--------------------------------------------------------------------------
(* _isoline: the call, one action per step.                              *)

\* lines 319-329: the argument checks and the edge tables
IsoEnter ==
    /\ pc = "call"
    /\ lines' = None
    /\ connects' = None
    /\ vertex_level' = None
    /\ IF \E a \in ArgNames : ~is_ndarray[a]
       THEN /\ pc' = "raised"
            /\ exc' = "ValueError"
            /\ UNCHANGED edges
       ELSE LET vs == CheckVerticesShape(vertices)
            IN  IF /\ ~IsNone(vs)
                   /\ tris.ncol = 3
                   /\ Len(vertex_data) = Len(Val(vs).row)
                THEN LET ed == Edges(tris)
                     IN  IF \E e \in 1..Len(ed) : \E c \in 1..2 :
                                ed[e][c] >= Len(vertex_data)
                         THEN /\ pc' = "raised"
                              /\ exc' = "IndexError"
                              /\ UNCHANGED edges
                         ELSE IF Len(ed) > 0 /\ Val(vs).ncol # 3
                         THEN /\ pc' = "raised"
                              /\ exc' = "ValueError"
                              /\ UNCHANGED edges
                         ELSE /\ pc' = "loop"
                              /\ edges' = ed
                              /\ UNCHANGED exc
                ELSE /\ pc' = "returned"
                     /\ UNCHANGED <<exc, edges>>
    /\ UNCHANGED <<is_ndarray, vertices, tris, vertex_data, levels, lev_i,
                   index>>
    /\ UNCHANGED sphVars
    /\ UNCHANGED bkVars
    /\ UNCHANGED cbVars
    /\ UNCHANGED pbVars
    /\ UNCHANGED rnVars

\* lines 330-350: one iteration of `for lev in levels`
IsoLevel ==
    /\ pc = "loop"
    /\ lev_i < Len(levels)
    /\ LET lev == levels[lev_i + 1]
           vs == Val(CheckVerticesShape(vertices))
           point == Point(vs, vertex_data, edges, lev)
           nbr == Len(point) \div 2
       IN  /\ index' = Index(EdgeDatas(vertex_data, edges), lev)
           /\ IF IsNone(connects)
              THEN /\ lines' = Some(point)
                   /\ connects' = Some(Connect(nbr, 0))
                   /\ vertex_level' = Some(Tags(Len(point), lev))
              ELSE /\ connects' =
                          Some(Val(connects) \o Connect(nbr, Len(Val(lines))))
                   /\ lines' = Some(Val(lines) \o point)
                   /\ vertex_level' =
                          Some(Val(vertex_level) \o Tags(Len(point), lev))
    /\ lev_i' = lev_i + 1
    /\ UNCHANGED <<is_ndarray, vertices, tris, vertex_data, levels, pc, exc,
                   edges>>
    /\ UNCHANGED sphVars
    /\ UNCHANGED bkVars
    /\ UNCHANGED cbVars
    /\ UNCHANGED pbVars
    /\ UNCHANGED rnVars

\* line 352: return lines, connects
IsoReturn ==
    /\ pc = "loop"
    /\ lev_i = Len(levels)
    /\ pc' = "returned"
    /\ UNCHANGED <<is_ndarray, vertices, tris, vertex_data, levels, exc,
                   edges, lev_i, index, lines, connects, vertex_level>>
    /\ UNCHANGED sphVars
    /\ UNCHANGED bkVars
    /\ UNCHANGED cbVars
    /\ UNCHANGED pbVars
    /\ UNCHANGED rnVars

--------------------------------------------------------------------------
(* _create_sphere and _Renderer.sphere: pure parts.                      *)
(*                                                                       *)
(* A vertex of the canonical sphere is the pair <<i, j>> of its ring and *)
(* column: the code computes its coordinates from phi_i and th_ij, and   *)
(* sines and cosines are not representable here.  An accumulated vertex  *)
(* is the record [v |-> <<i, j>>, p |-> its three coordinates].          *)
(* A uint32 entry is held as the 32-bit two's complement integer of the  *)
(* same bits: a negative entry e stands for 2^32 + e.                    *)

Min(a, b) == IF a < b THEN a ELSE b
Max(a, b) == IF a > b THEN a ELSE b

\* a Python slice bound i of a sequence of length n
SliceBound(i, n) == IF i < 0 THEN Max(n + i, 0) ELSE Min(i, n)

\* the slice with its end bound one too low
PySliceOffByOne(s, lo, hi) ==
    SubSeq(s, SliceBound(lo, Len(s)) + 1, SliceBound(hi - 1, Len(s)))

\* s[lo:hi]
PySlice(s, lo, hi) ==
    SubSeq(s, SliceBound(lo, Len(s)) + 1, SliceBound(hi, Len(s)))

\* np.empty((n, ...)): n rows not yet written
Empty(n) == [k \in 1..n |-> <<>>]

\* a[off:off + len(b)] = b
AssignRows(a, off, b) ==
    [k \in 1..Len(a) |->
        IF k > off /\ k <= off + Len(b) THEN b[k - off] ELSE a[k]]

\* verts.reshape((rows + 1) * cols, 3): ring i, column j at i * cols + j
RingVerts(r, c) ==
    [f \in 1..((r + 1) * c) |-> <<(f - 1) \div c, (f - 1) % c>>]

\* rowtemplate1 + row * cols
RowTemplate1(c, row) ==
    [k \in 1..c |-> <<(k % c) + row * c,
                      ((k - 1) % c) + row * c,
                      ((k - 1) % c) + c + row * c>>]

\* rowtemplate2 + row * cols
RowTemplate2(c, row) ==
    [k \in 1..c |-> <<(k % c) + row * c,
                      ((k - 1) % c) + c + row * c,
                      (k % c) + c + row * c>>]

\* a uint32 entry compared with a Python int: e < n, e > n
U32Less(e, n) == e >= 0 /\ e < n
U32Greater(e, n) == e < 0 \/ e > n

\* the lower clamp left out
ClampLowMissing(e, vmin) == e

\* faces[faces < vmin] = vmin on one entry
ClampLow(e, vmin) == IF U32Less(e, vmin) THEN vmin ELSE e

\* the upper clamp left out
ClampHighMissing(e, vmax) == e

\* faces[faces > vmax] = vmax on one entry
ClampHigh(e, vmax) == IF U32Greater(e, vmax) THEN vmax ELSE e

\* lines 272-276 on one entry
Adjust(e, vmin, vmax) == ClampHigh(ClampLow(e, vmin) - vmin, vmax)

\* lines 269-276 on the whole array
TrimFaces(f, c, nverts) ==
    LET cut == PySlice(f, c, -c)
    IN  [k \in 1..Len(cut) |->
            [x \in 1..3 |-> Adjust(cut[k][x], c - 1, nverts - 1)]]

\* the faces appended without the index shift
ShiftFacesNoOffset(f, off) == f

\* orig_faces + voffset
ShiftFaces(f, off) == [k \in 1..Len(f) |-> [x \in 1..3 |-> f[k][x] + off]]

\* A coordinate of an accumulated vertex is a linear form <<a, b, c, d>>,
\* standing for a * x + b * y + c * z + d with (x, y, z) the coordinates of
\* the vertex on the canonical sphere.

\* a column of np.c_[orig_vertices, np.ones(n_vertices)].T: (x, y, z, 1)
HomogeneousColumn ==
    << <<1, 0, 0, 0>>, <<0, 1, 0, 0>>, <<0, 0, 1, 0>>, <<0, 0, 0, 1>> >>

\* the center written into the last row: mat[3, :-1] = c
TranslationMatTransposed(c) ==
    [r \in 1..4 |-> [q \in 1..4 |->
        IF r = 4 /\ q < 4 THEN c[q] ELSE IF r = q THEN 1 ELSE 0]]

\* mat = np.eye(4); mat[:-1, 3] = c
TranslationMat(c) ==
    [r \in 1..4 |-> [q \in 1..4 |->
        IF q = 4 /\ r < 4 THEN c[r] ELSE IF r = q THEN 1 ELSE 0]]

\* mat.dot(col) for a column of linear forms
MatDot(mat, col) ==
    [r \in 1..4 |-> [x \in 1..4 |->
        mat[r][1] * col[1][x] + mat[r][2] * col[2][x]
            + mat[r][3] * col[3][x] + mat[r][4] * col[4][x]]]

\* mat.dot(orig_vertices).T[:, 0:3] with mat the translation by c
Translate(vs, c) ==
    [k \in 1..Len(vs) |->
        [v |-> vs[k],
         p |-> SubSeq(MatDot(TranslationMat(c), HomogeneousColumn), 1, 3)]]

--------------------------------------------------------------------------
(* _create_sphere and _Renderer.sphere: the calls.                       *)

\* scalars 0, 0.5, 1 and levels 0.5, 1, 1.5 (units of 1/2): a level can be
\* below, at, between and above the scalars of a mesh
ScalarValues == 0..2
LevelValues == 1..3

CenterValues == {<<0, 0, 0>>, <<1, 0, 0>>, <<0, 0, 1>>}

--------------------------------------------------------------------------
(* _ipyvolume.py: the limits of the scene.                               *)
(*                                                                       *)
(* Coordinates are finite floats, counted in units of 1/2; directions    *)
(* are counted in units of 1.  An array is a sequence.                   *)

\* the coordinates of the plotted meshes
CoordValues == -1..1

\* the set of the entries of an array
Entries(a) == {a[i] : i \in 1..Len(a)}

SetMin(S) == CHOOSE m \in S : \A x \in S : m <= x

SetMax(S) == CHOOSE m \in S : \A x \in S : m >= x

\* the limits taken from the arrays alone
UpdateLimitsForgetful(lo, hi, x, y, z) ==
    IF x = <<>> \/ y = <<>> \/ z = <<>>
    THEN [vmin |-> lo, vmax |-> hi, exc |-> "ValueError"]
    ELSE [vmin |-> SetMin(Entries(x) \cup Entries(y) \cup Entries(z)),
          vmax |-> SetMax(Entries(x) \cup Entries(y) \cup Entries(z)),
          exc |-> "none"]

\* lines 87-89: update_limits(x, y, z) on the limits lo, hi; the min of an
\* empty array raises ValueError
UpdateLimits(lo, hi, x, y, z) ==
    IF x = <<>> \/ y = <<>> \/ z = <<>>
    THEN [vmin |-> lo, vmax |-> hi, exc |-> "ValueError"]
    ELSE [vmin |-> SetMin({lo} \cup Entries(x) \cup Entries(y)
                               \cup Entries(z)),
          vmax |-> SetMax({hi} \cup Entries(x) \cup Entries(y)
                               \cup Entries(z)),
          exc |-> "none"]

\* the arrays are handed to ipyvolume, then update_limits is called
PlotAndUpdateLimits(op, arg, x, y, z) ==
    LET r == UpdateLimits(self_vmin, self_vmax, x, y, z)
    IN  /\ plotted' = plotted \cup Entries(x) \cup Entries(y) \cup Entries(z)
        /\ self_vmin' = r.vmin
        /\ self_vmax' = r.vmax
        /\ rn_last' = [op |-> op, arg |-> arg, exc |-> r.exc]

\* three coordinate arrays of one length, up to n entries each
CoordArrays(n) ==
    UNION {[1..3 -> [1..m -> CoordValues]] : m \in 0..n}

\* _create_sphere(rows, cols, radius) called on its own
CallCreateSphere ==
    /\ sph_pc = "idle"
    /\ \E r \in 1..MaxRows : \E c \in 1..MaxCols :
          /\ rows' = r
          /\ cols' = c
    /\ caller' = "direct"
    /\ sph_pc' = "verts"
    /\ UNCHANGED <<verts, faces, row_i, center, center_i, voffset, foffset,
                   acc_vertices, acc_faces>>
    /\ UNCHANGED isoVars
    /\ UNCHANGED bkVars
    /\ UNCHANGED cbVars
    /\ UNCHANGED pbVars
    /\ UNCHANGED rnVars

\* lines 156-165: sphere(center, color, scale, resolution) up to its call
\* of _create_sphere(rows=resolution, cols=resolution)
CallSphere ==
    /\ sph_pc = "idle"
    /\ \E resolution \in 1..Min(MaxRows, MaxCols) :
          /\ rows' = resolution
          /\ cols' = resolution
    /\ \/ \E c \in CenterValues : center' = <<c>>        \* center.ndim == 1
       \/ center' \in SeqsUpTo(CenterValues, MaxCenters)
    /\ caller' = "sphere"
    /\ sph_pc' = "verts"
    /\ UNCHANGED <<verts, faces, row_i, center_i, voffset, foffset,
                   acc_vertices, acc_faces>>
    /\ UNCHANGED isoVars
    /\ UNCHANGED bkVars
    /\ UNCHANGED cbVars
    /\ UNCHANGED pbVars
    /\ UNCHANGED rnVars

\* lines 241-257: the vertices, and the empty faces array
CreateVerts ==
    /\ sph_pc = "verts"
    /\ verts' = PySlice(RingVerts(rows, cols), cols - 1, -(cols - 1))
    /\ faces' = Empty(rows * cols * 2)
    /\ row_i' = 0
    /\ sph_pc' = "faces"
    /\ UNCHANGED <<caller, rows, cols, center, center_i, voffset, foffset,
                   acc_vertices, acc_faces>>
    /\ UNCHANGED isoVars
    /\ UNCHANGED bkVars
    /\ UNCHANGED cbVars
    /\ UNCHANGED pbVars
    /\ UNCHANGED rnVars

\* lines 264-267: one iteration of `for row in range(rows)`
CreateFacesRow ==
    /\ sph_pc = "faces"
    /\ row_i < rows
    /\ LET start == row_i * cols * 2
       IN  faces' = AssignRows(AssignRows(faces, start,
                                          RowTemplate1(cols, row_i)),
                               start + cols, RowTemplate2(cols, row_i))
    /\ row_i' = row_i + 1
    /\ UNCHANGED <<sph_pc, caller, rows, cols, verts, center, center_i,
                   voffset, foffset, acc_vertices, acc_faces>>
    /\ UNCHANGED isoVars
    /\ UNCHANGED bkVars
    /\ UNCHANGED cbVars
    /\ UNCHANGED pbVars
    /\ UNCHANGED rnVars

\* lines 269-277 and, in sphere, lines 166-175.  Storing a negative vmax
\* into the uint32 array wraps around or raises OverflowError, by the
\* numpy version.
CreateTrim ==
    /\ sph_pc = "faces"
    /\ row_i = rows
    /\ \/ /\ faces' = TrimFaces(faces, cols, Len(verts))
          /\ sph_pc' = IF caller = "sphere" THEN "accumulate" ELSE "created"
          /\ acc_vertices' = IF caller = "sphere"
                             THEN Empty(Len(center) * Len(verts))
                             ELSE acc_vertices
          /\ acc_faces' = IF caller = "sphere"
                          THEN Empty(Len(center) * Len(faces'))
                          ELSE acc_faces
          /\ UNCHANGED exc
       \/ /\ Len(verts) - 1 < 0
          /\ sph_pc' = "raised"
          /\ exc' = "OverflowError"
          /\ UNCHANGED <<faces, acc_vertices, acc_faces>>
    /\ voffset' = 0
    /\ foffset' = 0
    /\ center_i' = 0
    /\ UNCHANGED <<caller, rows, cols, verts, row_i, center>>
    /\ UNCHANGED <<is_ndarray, vertices, tris, vertex_data, levels, pc,
                   edges, lev_i, index, lines, connects, vertex_level>>
    /\ UNCHANGED bkVars
    /\ UNCHANGED cbVars
    /\ UNCHANGED pbVars
    /\ UNCHANGED rnVars

\* lines 176-188: one iteration of `for c in center`
SphereAccumulate ==
    /\ sph_pc = "accumulate"
    /\ center_i < Len(center)
    /\ acc_faces' = AssignRows(acc_faces, foffset, ShiftFaces(faces, voffset))
    /\ foffset' = foffset + Len(faces)
    /\ acc_vertices' = AssignRows(acc_vertices, voffset,
                                  Translate(verts, center[center_i + 1]))
    /\ voffset' = voffset + Len(verts)
    /\ center_i' = center_i + 1
    /\ UNCHANGED <<sph_pc, caller, rows, cols, verts, faces, row_i, center>>
    /\ UNCHANGED isoVars
    /\ UNCHANGED bkVars
    /\ UNCHANGED cbVars
    /\ UNCHANGED pbVars
    /\ UNCHANGED rnVars

\* lines 190-196 of sphere: the accumulated vertices are plotted; lo and hi
\* stand for their smallest and largest coordinate
SpherePlotLimits(empty) ==
    IF empty
    THEN PlotAndUpdateLimits("sphere", 0, <<>>, <<>>, <<>>)
    ELSE \E lo \in CoordValues : \E hi \in CoordValues :
            /\ lo <= hi
            /\ PlotAndUpdateLimits("sphere", 0, <<lo, hi>>, <<lo, hi>>,
                                   <<lo, hi>>)

\* lines 190-196: the accumulated mesh is plotted
SpherePlot ==
    /\ sph_pc = "accumulate"
    /\ center_i = Len(center)
    /\ sph_pc' = "plotted"
    /\ SpherePlotLimits(acc_vertices = <<>>)
    /\ n_calls' = n_calls + 1
    /\ UNCHANGED <<qpos, qdir>>
    /\ UNCHANGED <<caller, rows, cols, verts, faces, row_i, center, center_i,
                   voffset, foffset, acc_vertices, acc_faces>>
    /\ UNCHANGED isoVars
    /\ UNCHANGED bkVars
    /\ UNCHANGED cbVars
    /\ UNCHANGED pbVars

--------------------------------------------------------------------------
(* _ipyvolume.py: the calls on a constructed _Renderer.  contour and     *)
(* sphere are taken as one step each: their coordinates are the points   *)
(* _isoline returned and the vertices sphere accumulated.                *)

\* the scales given to quiver3d
QuiverScales == 1..2

\* the glyphs of the caller: a position and a direction
Glyphs == {[p |-> <<0, 0, 0>>, d |-> <<1, 0, -1>>],
           [p |-> <<1, -1, 0>>, d |-> <<-1, 1, 0>>],
           [p |-> <<-1, 0, 1>>, d |-> <<0, 0, 0>>]}

\* column c of an (n, 3) array
Column(rr, c) == [i \in 1..Len(rr) |-> rr[i][c]]

\* the shift by scale * u: tr = scale in place of scale / 2.0
QuiverShiftFullScale(pos, dir, scale) ==
    [i \in 1..Len(pos) |-> pos[i] + 2 * scale * dir[i]]

\* lines 206-209: x += tr * u with tr = scale / 2.0; pos is counted in
\* units of 1/2, so tr * u is scale * u of these units
QuiverShift(pos, dir, scale) ==
    [i \in 1..Len(pos) |-> pos[i] + scale * dir[i]]

\* lines 97-105: mesh(x, y, z, triangles, color)
RendererMesh ==
    /\ n_calls < MaxCalls
    /\ \E a \in CoordArrays(MaxPoints) :
          PlotAndUpdateLimits("mesh", 0, a[1], a[2], a[3])
    /\ n_calls' = n_calls + 1
    /\ UNCHANGED <<qpos, qdir>>
    /\ UNCHANGED <<isoVars, sphVars, bkVars>>
    /\ UNCHANGED cbVars
    /\ UNCHANGED pbVars

\* lines 136-154: surface(surface, color), with surface['rr'] of shape (n, 3)
RendererSurface ==
    /\ n_calls < MaxCalls
    /\ \E rr \in SeqsUpTo([1..3 -> CoordValues], MaxPoints) :
          PlotAndUpdateLimits("surface", 0, Column(rr, 1), Column(rr, 2),
                              Column(rr, 3))
    /\ n_calls' = n_calls + 1
    /\ UNCHANGED <<qpos, qdir>>
    /\ UNCHANGED <<isoVars, sphVars, bkVars>>
    /\ UNCHANGED cbVars
    /\ UNCHANGED pbVars

\* lines 107-134: contour(surface, scalars, contours); _isoline returns the
\* points of the levels, or None, and None.T raises AttributeError
RendererContour ==
    /\ n_calls < MaxCalls
    /\ \/ /\ rn_last' = [op |-> "contour", arg |-> 0,
                         exc |-> "AttributeError"]
          /\ UNCHANGED <<self_vmin, self_vmax, plotted>>
       \/ \E rr \in SeqsUpTo([1..3 -> CoordValues], MaxPoints) :
             /\ rr # <<>>
             /\ PlotAndUpdateLimits("contour", 0, Column(rr, 1),
                                    Column(rr, 2), Column(rr, 3))
    /\ n_calls' = n_calls + 1
    /\ UNCHANGED <<qpos, qdir>>
    /\ UNCHANGED <<isoVars, sphVars, bkVars>>
    /\ UNCHANGED cbVars
    /\ UNCHANGED pbVars

\* lines 156-196: sphere(center, color, scale) as one step; the sphere that
\* kept no vertex plots empty arrays
RendererSphere ==
    /\ n_calls < MaxCalls
    /\ \E empty \in BOOLEAN : SpherePlotLimits(empty)
    /\ n_calls' = n_calls + 1
    /\ UNCHANGED <<qpos, qdir>>
    /\ UNCHANGED <<isoVars, sphVars, bkVars>>
    /\ UNCHANGED cbVars
    /\ UNCHANGED pbVars

\* lines 198-215: quiver3d(x, y, z, u, v, w, color, scale, mode) on the
\* caller's float arrays; np.atleast_1d returns the arrays themselves
RendererQuiver3d ==
    /\ n_calls < MaxCalls
    /\ \E scale \in QuiverScales :
          LET xyz == [c \in 1..3 |-> QuiverShift(qpos[c], qdir[c], scale)]
          IN  /\ qpos' = xyz
              /\ PlotAndUpdateLimits("quiver3d", scale, xyz[1], xyz[2],
                                     xyz[3])
    /\ n_calls' = n_calls + 1
    /\ UNCHANGED qdir
    /\ UNCHANGED <<isoVars, sphVars, bkVars>>
    /\ UNCHANGED cbVars
    /\ UNCHANGED pbVars

\* lines 220-222: show()
RendererShow ==
    /\ n_calls < MaxCalls
    /\ rn_last' = [op |-> "show", arg |-> 0, exc |-> "none"]
    /\ n_calls' = n_calls + 1
    /\ UNCHANGED <<self_vmin, self_vmax, plotted, qpos, qdir>>
    /\ UNCHANGED <<isoVars, sphVars, bkVars>>
    /\ UNCHANGED cbVars
    /\ UNCHANGED pbVars

\* lines 224-225: close(), which clears the figure and keeps the limits
RendererClose ==
    /\ n_calls < MaxCalls
    /\ rn_last' = [op |-> "close", arg |-> 0, exc |-> "none"]
    /\ n_calls' = n_calls + 1
    /\ UNCHANGED <<self_vmin, self_vmax, plotted, qpos, qdir>>
    /\ UNCHANGED <<isoVars, sphVars, bkVars>>
    /\ UNCHANGED cbVars
    /\ UNCHANGED pbVars

\* lines 53-85: the renderer constructed, and the caller's glyph arrays
RendererConstructed ==
    /\ self_vmin = 0
    /\ self_vmax = 0
    /\ plotted = {}
    /\ \E n \in 1..MaxGlyphs : \E g \in [1..n -> Glyphs] :
          /\ qpos = [c \in 1..3 |-> [i \in 1..n |-> g[i].p[c]]]
          /\ qdir = [c \in 1..3 |-> [i \in 1..n |-> g[i].d[c]]]
    /\ n_calls = 0
    /\ rn_last = [op |-> "none", arg |-> 0, exc |-> "none"]

\* the renderer variables of a state with no call on the renderer
RendererIdle ==
    /\ RendererConstructed
    /\ qpos = <<<<0>>, <<0>>, <<0>>>>
    /\ qdir = <<<<1>>, <<0>>, <<-1>>>>

--------------------------------------------------------------------------
(* renderer.py: the backend selection.                                   *)
(*                                                                       *)
(* The namespace of the module is the record g of its three globals,     *)
(* each None while unbound.  An operation yields [g, exc]: the namespace *)
(* it leaves and the exception it raised, or "none".  A backend name is  *)
(* a string; "1" stands for the integer 1 of the tests, which like an    *)
(* unknown string is not a member of the valid names.                    *)

\* _utils.py: the names set_3d_backend accepts
VALID_3D_BACKENDS == {"mayavi", "vispy"}

\* the backend used when the environment names none
DEFAULT_3D_BACKEND == "mayavi"

\* the names the tests pass and put into the environment
BackendNames == {"mayavi", "vispy", "unknown_backend", "foo", "1"}

\* _check_option(parameter, value, allowed): TRUE when it returns, FALSE
\* when it raises ValueError
CheckOption(value, allowed) == value \in allowed

\* _get_backend_based_on_env_and_defaults(): the value of the environment
\* variable, or the default, checked against the valid names
GetBackendBasedOnEnvAndDefaults(env) ==
    LET backend == IF IsNone(env) THEN DEFAULT_3D_BACKEND ELSE Val(env)
    IN  [value |-> backend,
         exc |-> IF CheckOption(backend, VALID_3D_BACKENDS)
                 THEN "none" ELSE "ValueError"]

\* lines 25-31: the import of _Renderer from the module of the backend; the
\* import fails when that module cannot be imported
ImportRenderer(g, inst) ==
    LET backend == Val(g.backend)
    IN  IF backend = "mayavi"
        THEN IF "mayavi" \in inst
             THEN [g |-> [g EXCEPT !.renderer = Some("mayavi")], exc |-> "none"]
             ELSE [g |-> g, exc |-> "ImportError"]
        ELSE IF backend = "vispy"
        THEN IF "vispy" \in inst
             THEN [g |-> [g EXCEPT !.renderer = Some("vispy")], exc |-> "none"]
             ELSE [g |-> g, exc |-> "ImportError"]
        ELSE [g |-> g, exc |-> "RuntimeError"]

\* the module body with the environment read on every load
ModuleBodyAlwaysEnv(g, env, inst) ==
    LET r == GetBackendBasedOnEnvAndDefaults(env)
    IN  IF r.exc # "none"
        THEN [g |-> g, exc |-> r.exc]
        ELSE ImportRenderer([g EXCEPT !.backend = Some(r.value),
                                      !.test = Some(FALSE)], inst)

\* lines 16-31: the module body, run by import and by importlib.reload in
\* the namespace g
ModuleBody(g, env, inst) ==
    IF IsNone(g.backend) \/ IsNone(g.test)              \* NameError
    THEN LET r == GetBackendBasedOnEnvAndDefaults(env)
         IN  IF r.exc # "none"
             THEN [g |-> g, exc |-> r.exc]
             ELSE ImportRenderer([g EXCEPT !.backend = Some(r.value),
                                           !.test = Some(FALSE)], inst)
    ELSE ImportRenderer(g, inst)

\* set_3d_backend with the global assigned before the name is checked
Set3dBackendAssignFirst(g, backend_name, env, inst) ==
    IF ~CheckOption(backend_name, VALID_3D_BACKENDS)
    THEN [g |-> [g EXCEPT !.backend = Some(backend_name)],
          exc |-> "ValueError"]
    ELSE ModuleBody([g EXCEPT !.backend = Some(backend_name)], env, inst)

\* lines 45-49: set_3d_backend(backend_name)
Set3dBackend(g, backend_name, env, inst) ==
    IF ~CheckOption(backend_name, VALID_3D_BACKENDS)
    THEN [g |-> g, exc |-> "ValueError"]
    ELSE ModuleBody([g EXCEPT !.backend = Some(backend_name)], env, inst)

\* the namespace before the first import
Unbound == [backend |-> None, test |-> None, renderer |-> None]

\* the namespace of the current state
Globals == [backend |-> MNE_3D_BACKEND, test |-> TEST_MNE_3D_BACKEND,
            renderer |-> Renderer]

\* lines 60-61: get_3d_backend()
Get3dBackend == MNE_3D_BACKEND

\* the namespace becomes g
Bind(g) ==
    /\ MNE_3D_BACKEND' = g.backend
    /\ TEST_MNE_3D_BACKEND' = g.test
    /\ Renderer' = g.renderer

\* set_3d_backend(backend_name) is called
CallSet3dBackend ==
    /\ \E backend_name \in BackendNames :
          LET r == Set3dBackend(Globals, backend_name, environ, installed)
          IN  /\ Bind(r.g)
              /\ last_call' = [op |-> "set", arg |-> backend_name,
                               exc |-> r.exc]
    /\ UNCHANGED <<environ, installed, mocked, ctx_stack>>
    /\ UNCHANGED <<isoVars, sphVars>>
    /\ UNCHANGED cbVars
    /\ UNCHANGED pbVars
    /\ UNCHANGED rnVars

\* importlib.reload(renderer)
ReloadModule ==
    /\ LET r == ModuleBody(Globals, environ, installed)
       IN  /\ Bind(r.g)
           /\ last_call' = [op |-> "reload", arg |-> "", exc |-> r.exc]
    /\ UNCHANGED <<environ, installed, mocked, ctx_stack>>
    /\ UNCHANGED <<isoVars, sphVars>>
    /\ UNCHANGED cbVars
    /\ UNCHANGED pbVars
    /\ UNCHANGED rnVars

\* tests, backend_mocker before its yield: del renderer.MNE_3D_BACKEND
DelGlobal ==
    /\ ~mocked
    /\ MNE_3D_BACKEND = Some(DEFAULT_3D_BACKEND)
    /\ MNE_3D_BACKEND' = None
    /\ mocked' = TRUE
    /\ last_call' = [op |-> "del", arg |-> "", exc |-> "none"]
    /\ UNCHANGED <<TEST_MNE_3D_BACKEND, Renderer, environ, installed,
                   ctx_stack>>
    /\ UNCHANGED <<isoVars, sphVars>>
    /\ UNCHANGED cbVars
    /\ UNCHANGED pbVars
    /\ UNCHANGED rnVars

\* tests, backend_mocker after its yield:
\* renderer.MNE_3D_BACKEND = DEFAULT_3D_BACKEND
RestoreGlobal ==
    /\ mocked
    /\ MNE_3D_BACKEND' = Some(DEFAULT_3D_BACKEND)
    /\ mocked' = FALSE
    /\ last_call' = [op |-> "restore", arg |-> "", exc |-> "none"]
    /\ UNCHANGED <<TEST_MNE_3D_BACKEND, Renderer, environ, installed,
                   ctx_stack>>
    /\ UNCHANGED <<isoVars, sphVars>>
    /\ UNCHANGED cbVars
    /\ UNCHANGED pbVars
    /\ UNCHANGED rnVars

\* tests: monkeypatch.setenv("MNE_3D_BACKEND", backend), and its undoing
SetEnv ==
    /\ \E v \in {None} \cup {Some(n) : n \in BackendNames} :
          /\ environ' = v
          /\ last_call' = [op |-> "setenv",
                           arg |-> IF IsNone(v) THEN "" ELSE Val(v),
                           exc |-> "none"]
    /\ UNCHANGED <<MNE_3D_BACKEND, TEST_MNE_3D_BACKEND, Renderer, installed,
                   mocked, ctx_stack>>
    /\ UNCHANGED <<isoVars, sphVars>>
    /\ UNCHANGED cbVars
    /\ UNCHANGED pbVars
    /\ UNCHANGED rnVars

\* the context managers
ContextKinds == {"use_3d_backend", "use_test_3d_backend"}

\* lines 73-74 and 88-91: a context manager up to its yield; `entered` tells
\* whether the yield is reached
UseBackendEnter(g, kind, backend_name, env, inst) ==
    IF IsNone(g.backend)                              \* get_3d_backend()
    THEN [g |-> g, old |-> "", exc |-> "NameError", entered |-> FALSE]
    ELSE LET r == Set3dBackend(g, backend_name, env, inst)
         IN  IF r.exc # "none"
             THEN [g |-> r.g, old |-> Val(g.backend), exc |-> r.exc,
                   entered |-> FALSE]
             ELSE [g |-> IF kind = "use_test_3d_backend"
                         THEN [r.g EXCEPT !.test = Some(TRUE)] ELSE r.g,
                   old |-> Val(g.backend), exc |-> "none",
                   entered |-> TRUE]

\* lines 76 and 93: the body completed, the generator resumes after its yield
UseBackendExit(g, old_backend, env, inst) ==
    Set3dBackend(g, old_backend, env, inst)

\* a context manager whose restore is in a finally clause
UseBackendBodyRaisesFinally(g, old_backend, env, inst) ==
    Set3dBackend(g, old_backend, env, inst)

\* lines 75 and 92: the body raised; the exception is thrown into the
\* generator at its yield, which no try statement encloses
UseBackendBodyRaises(g, old_backend, env, inst) ==
    [g |-> g, exc |-> "none"]

\* `with use_3d_backend(backend_name):` or `with use_test_3d_backend(...)`
EnterContext ==
    /\ Len(ctx_stack) < MaxDepth
    /\ \E kind \in ContextKinds : \E backend_name \in BackendNames :
          LET r == UseBackendEnter(Globals, kind, backend_name, environ,
                                   installed)
          IN  /\ Bind(r.g)
              /\ ctx_stack' = IF r.entered THEN <<r.old>> \o ctx_stack
                              ELSE ctx_stack
              /\ last_call' = [op |-> "enter", arg |-> backend_name,
                               exc |-> r.exc]
    /\ UNCHANGED <<environ, installed, mocked>>
    /\ UNCHANGED <<isoVars, sphVars>>
    /\ UNCHANGED cbVars
    /\ UNCHANGED pbVars
    /\ UNCHANGED rnVars

\* the body of the innermost context completes
ExitContext ==
    /\ ctx_stack # <<>>
    /\ LET r == UseBackendExit(Globals, Head(ctx_stack), environ, installed)
       IN  /\ Bind(r.g)
           /\ last_call' = [op |-> "exit", arg |-> Head(ctx_stack),
                            exc |-> r.exc]
    /\ ctx_stack' = Tail(ctx_stack)
    /\ UNCHANGED <<environ, installed, mocked>>
    /\ UNCHANGED <<isoVars, sphVars>>
    /\ UNCHANGED cbVars
    /\ UNCHANGED pbVars
    /\ UNCHANGED rnVars

\* the body of the innermost context raises
RaiseInContext ==
    /\ ctx_stack # <<>>
    /\ LET r == UseBackendBodyRaises(Globals, Head(ctx_stack), environ,
                                     installed)
       IN  /\ Bind(r.g)
           /\ last_call' = [op |-> "raise", arg |-> Head(ctx_stack),
                            exc |-> "body"]
    /\ ctx_stack' = Tail(ctx_stack)
    /\ UNCHANGED <<environ, installed, mocked>>
    /\ UNCHANGED <<isoVars, sphVars>>
    /\ UNCHANGED cbVars
    /\ UNCHANGED pbVars
    /\ UNCHANGED rnVars

\* the module after its first import, which succeeded
BackendLoaded ==
    /\ installed \in SUBSET VALID_3D_BACKENDS
    /\ environ \in {None} \cup {Some(n) : n \in BackendNames}
    /\ LET r == ModuleBody(Unbound, environ, installed)
       IN  /\ r.exc = "none"
           /\ MNE_3D_BACKEND = r.g.backend
           /\ TEST_MNE_3D_BACKEND = r.g.test
           /\ Renderer = r.g.renderer
    /\ mocked = FALSE
    /\ last_call = [op |-> "import", arg |-> "", exc |-> "none"]
    /\ ctx_stack = <<>>

\* the backend variables of a state in which no backend call is made
BackendIdle ==
    /\ BackendLoaded
    /\ environ = None
    /\ installed = VALID_3D_BACKENDS

--------------------------------------------------------------------------
(* _timeviewer.py: the colorbar sliders of a constructed _TimeViewer.    *)
(*                                                                       *)
(* The three sliders fmin, fmid, fmax are named, so every callback finds *)
(* the three representations.  brain.update_fmin(v), update_fmid(v) and  *)
(* update_fmax(v) store v under their key of brain._data.  Slider values *)
(* are integers; the clock counts units of 1/60 s, and a callback reads  *)
(* it once.                                                              *)

BrainUpdate(data, key, v) == [data EXCEPT ![key] = v]

\* line 124: the 1. / 60. of the throttle, in clock units
Throttle == 1

Keys == {"fmin", "fmid", "fmax"}

\* the values a slider can be dragged to
SliderValues == 0..3

\* the fmin callback without the bump of fmid
BumpOthersFminOnlyFmax(name, value, data, rep) ==
    IF name = "fmin"
    THEN LET up == data.fmax < value
         IN  [data |-> [data EXCEPT !.fmax = IF up THEN value ELSE @],
              rep |-> [rep EXCEPT !.fmax = IF up THEN value ELSE @,
                                  !.fmin = value]]
    ELSE IF name = "fmid"
    THEN LET lo == data.fmin > value
             hi == data.fmax < value
         IN  [data |-> [data EXCEPT !.fmin = IF lo THEN value ELSE @,
                                    !.fmax = IF hi THEN value ELSE @],
              rep |-> [rep EXCEPT !.fmin = IF lo THEN value ELSE @,
                                  !.fmax = IF hi THEN value ELSE @,
                                  !.fmid = value]]
    ELSE LET lo == data.fmin > value
             mid == data.fmid > value
         IN  [data |-> [data EXCEPT !.fmin = IF lo THEN value ELSE @,
                                    !.fmid = IF mid THEN value ELSE @],
              rep |-> [rep EXCEPT !.fmin = IF lo THEN value ELSE @,
                                  !.fmid = IF mid THEN value ELSE @,
                                  !.fmax = value]]

\* lines 93-123: the other two keys bumped in the brain and on their sliders,
\* by the brain's values read at line 94, and the slider's own display set
BumpOthers(name, value, data, rep) ==
    IF name = "fmin"
    THEN LET up == data.fmax < value
             mid == data.fmid < value
         IN  [data |-> [data EXCEPT !.fmax = IF up THEN value ELSE @,
                                    !.fmid = IF mid THEN value ELSE @],
              rep |-> [rep EXCEPT !.fmax = IF up THEN value ELSE @,
                                  !.fmid = IF mid THEN value ELSE @,
                                  !.fmin = value]]
    ELSE IF name = "fmid"
    THEN LET lo == data.fmin > value
             hi == data.fmax < value
         IN  [data |-> [data EXCEPT !.fmin = IF lo THEN value ELSE @,
                                    !.fmax = IF hi THEN value ELSE @],
              rep |-> [rep EXCEPT !.fmin = IF lo THEN value ELSE @,
                                  !.fmax = IF hi THEN value ELSE @,
                                  !.fmid = value]]
    ELSE LET lo == data.fmin > value
             mid == data.fmid > value
         IN  [data |-> [data EXCEPT !.fmin = IF lo THEN value ELSE @,
                                    !.fmid = IF mid THEN value ELSE @],
              rep |-> [rep EXCEPT !.fmin = IF lo THEN value ELSE @,
                                  !.fmid = IF mid THEN value ELSE @,
                                  !.fmax = value]]

\* the throttle with >= in place of >
ThrottleOpenInclusive(t, last) == t >= last + Throttle

\* line 124: time.time() > self.last_update + 1. / 60.
ThrottleOpen(t, last) == t > last + Throttle

\* lines 91-126: BumpColorbarPoints.__call__(value) of the slider `name`
CallBumpColorbarPoints ==
    /\ \E name \in Keys : \E value \in SliderValues :
          LET r == BumpOthers(name, value, brain_data, slider_rep)
              open == ThrottleOpen(now, last_update[name])
          IN  /\ slider_rep' = r.rep
              /\ brain_data' = IF open THEN BrainUpdate(r.data, name, value)
                                       ELSE r.data
              /\ last_update' = IF open THEN [last_update EXCEPT ![name] = now]
                                        ELSE last_update
              /\ cb_last' = [name |-> name, value |-> value, applied |-> open]
    /\ UNCHANGED now
    /\ UNCHANGED <<isoVars, sphVars, bkVars>>
    /\ UNCHANGED pbVars
    /\ UNCHANGED rnVars

\* the clock advances by 1/60 s
ClockTick ==
    /\ now < MaxClock
    /\ now' = now + 1
    /\ UNCHANGED <<brain_data, slider_rep, last_update, cb_last>>
    /\ UNCHANGED <<isoVars, sphVars, bkVars>>
    /\ UNCHANGED pbVars
    /\ UNCHANGED rnVars

\* lines 226-275: the viewer constructed on a brain whose values are ordered;
\* each slider shows the value of the brain
ColorbarConstructed ==
    /\ brain_data \in [Keys -> SliderValues]
    /\ brain_data.fmin <= brain_data.fmid
    /\ brain_data.fmid <= brain_data.fmax
    /\ slider_rep = brain_data
    /\ last_update = [k \in Keys |-> 0]
    /\ now = 0
    /\ cb_last = [name |-> "none", value |-> 0, applied |-> FALSE]

\* the colorbar variables of a state with no viewer callback
ColorbarIdle ==
    /\ ColorbarConstructed
    /\ brain_data = [k \in Keys |-> 0]

--------------------------------------------------------------------------
(* _timeviewer.py: playback.                                             *)
(*                                                                       *)
(* Times are exact quotients <<n, d>>; the time axis holds integers.  A  *)
(* tick's shift delta * playback_speed is an integer: the clock counts   *)
(* units, and the speed is an integer number of time units per clock     *)
(* unit.  brain.set_time_point(idx) interpolates the time axis at idx    *)
(* over np.arange(n_times), as play() interpolates the index at a time.  *)

\* the speeds the playback speed slider can be set to
PlaybackSpeeds == 1..2

\* brain._data['time']: increasing, at least two samples
TimeAxes == {<<0, 1, 2>>, <<1, 2, 3>>, <<-1, 0, 1>>, <<0, 2, 4>>}

R(n) == <<n, 1>>

RatLeq(a, b) == a[1] * b[2] <= b[1] * a[2]

RatMin(a, b) == IF RatLeq(a, b) THEN a ELSE b

\* a + k for a quotient a and an integer k
RatAdd(a, k) == Div(a[1] + k * a[2], a[2])

SeqMin(xs) == CHOOSE m \in {xs[i] : i \in 1..Len(xs)} :
                  \A i \in 1..Len(xs) : m <= xs[i]

SeqMax(xs) == CHOOSE m \in {xs[i] : i \in 1..Len(xs)} :
                  \A i \in 1..Len(xs) : m >= xs[i]

\* np.arange(n)
Arange(n) == [i \in 1..n |-> i - 1]

\* scipy's interp1d(xs, ys)(x): linear, and a ValueError outside the range
Interp1d(xs, ys, x) ==
    IF ~RatLeq(R(xs[1]), x) \/ ~RatLeq(x, R(xs[Len(xs)]))
    THEN [value |-> R(0), exc |-> "ValueError"]
    ELSE LET k == CHOOSE j \in 1..(Len(xs) - 1) :
                      RatLeq(R(xs[j]), x) /\ RatLeq(x, R(xs[j + 1]))
             dx == xs[k + 1] - xs[k]
             dy == ys[k + 1] - ys[k]
         IN  [value |-> Div(ys[k] * x[2] * dx + (x[1] - xs[k] * x[2]) * dy,
                            x[2] * dx),
              exc |-> "none"]

\* brain.set_time_point(idx): the new time_idx and _current_time, or the
\* exception of an index outside 0 .. n_times - 1
SetTimePoint(td, idx) ==
    LET r == Interp1d(Arange(Len(td)), td, idx)
    IN  [time_idx |-> idx, current_time |-> r.value, exc |-> r.exc]

\* line 327: the argument toggle_playback passes to set_time_point
ToggleStartIndex(td) == R(SeqMin(td))

\* lines 321-328: toggle_playback()
TogglePlayback ==
    /\ playback' = ~playback
    /\ IF ~playback /\ current_time = R(SeqMax(time_data))
       THEN LET arg == ToggleStartIndex(time_data)
                r == SetTimePoint(time_data, arg)
            IN  /\ pb_last' = [op |-> "toggle_playback", arg |-> Some(arg),
                               exc |-> r.exc]
                /\ IF r.exc = "none"
                   THEN /\ time_idx' = r.time_idx
                        /\ current_time' = r.current_time
                        /\ last_tick' = Some(now)
                   ELSE UNCHANGED <<time_idx, current_time, last_tick>>
       ELSE /\ pb_last' = [op |-> "toggle_playback", arg |-> None,
                           exc |-> "none"]
            /\ last_tick' = IF ~playback THEN Some(now) ELSE last_tick
            /\ UNCHANGED <<time_idx, current_time>>
    /\ UNCHANGED <<time_data, time_rep, playback_speed>>
    /\ UNCHANGED <<isoVars, sphVars, bkVars>>
    /\ UNCHANGED cbVars
    /\ UNCHANGED rnVars

\* lines 330-331: set_playback_speed(speed)
SetPlaybackSpeed ==
    /\ \E speed \in PlaybackSpeeds : playback_speed' = speed
    /\ pb_last' = [op |-> "set_playback_speed", arg |-> None, exc |-> "none"]
    /\ UNCHANGED <<time_data, current_time, time_idx, time_rep, playback,
                   last_tick>>
    /\ UNCHANGED <<isoVars, sphVars, bkVars>>
    /\ UNCHANGED cbVars
    /\ UNCHANGED rnVars

\* lines 204-214: the time slider dragged to an index of its range
DragTimeSlider ==
    /\ \E i \in 0..(Len(time_data) - 1) :
          LET r == SetTimePoint(time_data, R(i))
          IN  /\ time_rep' = R(i)
              /\ time_idx' = r.time_idx
              /\ current_time' = r.current_time
              /\ pb_last' = [op |-> "time_slider", arg |-> Some(R(i)),
                             exc |-> r.exc]
    /\ UNCHANGED <<time_data, playback, playback_speed, last_tick>>
    /\ UNCHANGED <<isoVars, sphVars, bkVars>>
    /\ UNCHANGED cbVars
    /\ UNCHANGED rnVars

\* lines 333-354: play(), the timer callback
Play ==
    /\ IF ~playback
       THEN /\ pb_last' = [op |-> "play", arg |-> None, exc |-> "none"]
            /\ UNCHANGED <<current_time, time_idx, time_rep, playback,
                           last_tick>>
       ELSE IF IsNone(last_tick)
       THEN /\ pb_last' = [op |-> "play", arg |-> None,
                           exc |-> "AttributeError"]
            /\ UNCHANGED <<current_time, time_idx, time_rep, playback,
                           last_tick>>
       ELSE LET delta == now - Val(last_tick)
                time_shift == delta * playback_speed
                max_time == R(SeqMax(time_data))
                time_point == RatMin(RatAdd(current_time, time_shift),
                                     max_time)
                idx == Interp1d(time_data, Arange(Len(time_data)),
                                time_point)
                r == SetTimePoint(time_data, idx.value)
            IN  /\ last_tick' = Some(now)
                /\ IF idx.exc # "none"
                   THEN /\ pb_last' = [op |-> "play", arg |-> None,
                                       exc |-> idx.exc]
                        /\ UNCHANGED <<current_time, time_idx, time_rep,
                                       playback>>
                   ELSE IF r.exc # "none"
                   THEN /\ pb_last' = [op |-> "play",
                                       arg |-> Some(idx.value),
                                       exc |-> r.exc]
                        /\ UNCHANGED <<current_time, time_idx, time_rep,
                                       playback>>
                   ELSE /\ pb_last' = [op |-> "play",
                                       arg |-> Some(idx.value),
                                       exc |-> "none"]
                        /\ time_idx' = r.time_idx
                        /\ current_time' = r.current_time
                        /\ time_rep' = idx.value
                        /\ playback' = IF time_point = max_time THEN FALSE
                                       ELSE playback
    /\ UNCHANGED <<time_data, playback_speed>>
    /\ UNCHANGED <<isoVars, sphVars, bkVars>>
    /\ UNCHANGED cbVars
    /\ UNCHANGED rnVars

\* lines 204-214, 289-294: the viewer constructed on a brain showing one of
\* its time samples
PlaybackConstructed ==
    /\ time_data \in TimeAxes
    /\ \E i \in 0..(Len(time_data) - 1) :
          /\ time_idx = R(i)
          /\ time_rep = R(i)
          /\ current_time = R(time_data[i + 1])
    /\ playback = FALSE
    /\ playback_speed = 1
    /\ last_tick = None
    /\ pb_last = [op |-> "none", arg |-> None, exc |-> "none"]

\* the playback variables of a state with no viewer callback
PlaybackIdle ==
    /\ PlaybackConstructed
    /\ time_data = <<0, 1, 2>>
    /\ time_idx = R(0)

--------------------------------------------------------------------------
(* The inputs of the checked _isoline calls.                             *)

\* the first three vertices of the tetrahedron of tests/test_renderer.py
Positions == << <<0, 0, 0>>, <<1, 0, 0>>, <<0, 1, 0>> >>

Nv == Len(Positions)

AllTriRows == [1..3 -> 0..(Nv - 1)]

\* the rows of the meshes of several triangles: the triangle, a rotation of
\* it, and a row that repeats a vertex (a mesh of one triangle takes any row)
TriRows == {<<0, 1, 2>>, <<1, 2, 0>>, <<0, 0, 1>>}

\* a row of width w: the position, then homogeneous ones
VertexRow(k, w) == SubSeq(Positions[k] \o <<1, 1>>, 1, w)

\* a triangle row of width w over the three vertices
TriRow(w) == SubSeq(<<0, 1, 2, 0>>, 1, w)

\* arrays of the documented shapes: (Nv, 3), (Nf, 3), (Nv,), (Nl,)
InitShaped ==
    /\ is_ndarray = [a \in ArgNames |-> TRUE]
    /\ vertices = [ncol |-> 3, row |-> Positions]
    /\ \E t \in SeqsUpTo(TriRows, MaxTris) \cup [1..1 -> AllTriRows] :
          tris = [ncol |-> 3, row |-> t]
    /\ vertex_data \in [1..Nv -> ScalarValues]
    /\ levels \in SeqsUpTo(LevelValues, MaxLevels)

\* arguments that are not arrays, and arrays of other shapes
InitMisshaped ==
    /\ is_ndarray \in [ArgNames -> BOOLEAN]
    /\ \E w \in 2..5 :
          vertices = [ncol |-> w, row |-> [k \in 1..Nv |-> VertexRow(k, w)]]
    /\ \E w \in 2..4 : \E m \in 0..1 :
          tris = [ncol |-> w, row |-> [k \in 1..m |-> TriRow(w)]]
    /\ \E n \in (Nv - 1)..(Nv + 1) : vertex_data = [k \in 1..n |-> 2 * (k % 2)]
    /\ levels = <<1>>

\* the sphere variables of a state in which no sphere call is under way
SphereIdle ==
    /\ sph_pc = "idle"
    /\ caller = "none"
    /\ rows = 0
    /\ cols = 0
    /\ verts = <<>>
    /\ faces = <<>>
    /\ row_i = 0
    /\ center = <<>>
    /\ center_i = 0
    /\ voffset = 0
    /\ foffset = 0
    /\ acc_vertices = <<>>
    /\ acc_faces = <<>>

InitIsoline ==
    /\ InitShaped \/ InitMisshaped
    /\ SphereIdle
    /\ BackendIdle
    /\ ColorbarIdle
    /\ PlaybackIdle
    /\ RendererIdle
    /\ pc = "call"
    /\ exc = "none"
    /\ edges = <<>>
    /\ lev_i = 0
    /\ index = <<>>
    /\ lines = None
    /\ connects = None
    /\ vertex_level = None

NextIsoline == IsoEnter \/ IsoLevel \/ IsoReturn

SpecIsoline == InitIsoline /\ [][NextIsoline]_vars

--------------------------------------------------------------------------
(* _create_sphere followed by _isoline: the mesh a direct call of        *)
(* _create_sphere returned, with valid tessellation parameters, is       *)
(* handed to _isoline with a constant scalar field.  The vertex <<i, j>> *)
(* is placed at (i, j, 0): _isoline reads positions only to interpolate. *)

IsolineOnSphere ==
    /\ sph_pc = "created"
    /\ cols >= 3
    /\ pc = "idle"
    /\ is_ndarray' = [a \in ArgNames |-> TRUE]
    /\ vertices' = [ncol |-> 3,
                    row |-> [k \in 1..Len(verts) |-> verts[k] \o <<0>>]]
    /\ tris' = [ncol |-> 3, row |-> faces]
    /\ \E c \in ScalarValues : vertex_data' = [k \in 1..Len(verts) |-> c]
    /\ levels' \in SeqsUpTo(LevelValues, MaxLevels)
    /\ pc' = "call"
    /\ UNCHANGED <<exc, edges, lev_i, index, lines, connects, vertex_level>>
    /\ UNCHANGED sphVars
    /\ UNCHANGED bkVars
    /\ UNCHANGED cbVars
    /\ UNCHANGED pbVars
    /\ UNCHANGED rnVars

InitSphere ==
    /\ SphereIdle
    /\ BackendIdle
    /\ ColorbarIdle
    /\ PlaybackIdle
    /\ RendererIdle
    /\ is_ndarray = [a \in ArgNames |-> TRUE]
    /\ vertices = [ncol |-> 3, row |-> <<>>]
    /\ tris = [ncol |-> 3, row |-> <<>>]
    /\ vertex_data = <<>>
    /\ levels = <<>>
    /\ pc = "idle"
    /\ exc = "none"
    /\ edges = <<>>
    /\ lev_i = 0
    /\ index = <<>>
    /\ lines = None
    /\ connects = None
    /\ vertex_level = None

NextSphere ==
    \/ CallCreateSphere
    \/ CallSphere
    \/ CreateVerts
    \/ CreateFacesRow
    \/ CreateTrim
    \/ SphereAccumulate
    \/ SpherePlot
    \/ IsolineOnSphere
    \/ IsoEnter
    \/ IsoLevel
    \/ IsoReturn

SpecSphere == InitSphere /\ [][NextSphere]_vars

--------------------------------------------------------------------------
(* The backend selection on its own: the module has been imported, and   *)
(* the calls of the tests are made in any order.                         *)

InitBackend ==
    /\ BackendLoaded
    /\ SphereIdle
    /\ ColorbarIdle
    /\ PlaybackIdle
    /\ RendererIdle
    /\ is_ndarray = [a \in ArgNames |-> TRUE]
    /\ vertices = [ncol |-> 3, row |-> <<>>]
    /\ tris = [ncol |-> 3, row |-> <<>>]
    /\ vertex_data = <<>>
    /\ levels = <<>>
    /\ pc = "idle"
    /\ exc = "none"
    /\ edges = <<>>
    /\ lev_i = 0
    /\ index = <<>>
    /\ lines = None
    /\ connects = None
    /\ vertex_level = None

NextBackend ==
    \/ CallSet3dBackend
    \/ EnterContext
    \/ ExitContext
    \/ RaiseInContext
    \/ ReloadModule
    \/ DelGlobal
    \/ RestoreGlobal
    \/ SetEnv

SpecBackend == InitBackend /\ [][NextBackend]_vars

--------------------------------------------------------------------------
(* The colorbar sliders on their own: callbacks of the three sliders     *)
(* with any values, at any times.                                        *)

InitColorbar ==
    /\ ColorbarConstructed
    /\ PlaybackIdle
    /\ RendererIdle
    /\ BackendIdle
    /\ SphereIdle
    /\ is_ndarray = [a \in ArgNames |-> TRUE]
    /\ vertices = [ncol |-> 3, row |-> <<>>]
    /\ tris = [ncol |-> 3, row |-> <<>>]
    /\ vertex_data = <<>>
    /\ levels = <<>>
    /\ pc = "idle"
    /\ exc = "none"
    /\ edges = <<>>
    /\ lev_i = 0
    /\ index = <<>>
    /\ lines = None
    /\ connects = None
    /\ vertex_level = None

NextColorbar == CallBumpColorbarPoints \/ ClockTick

SpecColorbar == InitColorbar /\ [][NextColorbar]_vars

--------------------------------------------------------------------------
(* Playback on its own: the space key, the timer, the time slider and    *)
(* the speed slider, at any times.                                       *)

InitPlayback ==
    /\ PlaybackConstructed
    /\ RendererIdle
    /\ ColorbarIdle
    /\ BackendIdle
    /\ SphereIdle
    /\ is_ndarray = [a \in ArgNames |-> TRUE]
    /\ vertices = [ncol |-> 3, row |-> <<>>]
    /\ tris = [ncol |-> 3, row |-> <<>>]
    /\ vertex_data = <<>>
    /\ levels = <<>>
    /\ pc = "idle"
    /\ exc = "none"
    /\ edges = <<>>
    /\ lev_i = 0
    /\ index = <<>>
    /\ lines = None
    /\ connects = None
    /\ vertex_level = None

NextPlayback ==
    TogglePlayback \/ Play \/ SetPlaybackSpeed \/ DragTimeSlider \/ ClockTick

SpecPlayback == InitPlayback /\ [][NextPlayback]_vars

--------------------------------------------------------------------------
(* The ipyvolume renderer on its own: any calls, up to MaxCalls.         *)

InitRenderer ==
    /\ RendererConstructed
    /\ PlaybackIdle
    /\ ColorbarIdle
    /\ BackendIdle
    /\ SphereIdle
    /\ is_ndarray = [a \in ArgNames |-> TRUE]
    /\ vertices = [ncol |-> 3, row |-> <<>>]
    /\ tris = [ncol |-> 3, row |-> <<>>]
    /\ vertex_data = <<>>
    /\ levels = <<>>
    /\ pc = "idle"
    /\ exc = "none"
    /\ edges = <<>>
    /\ lev_i = 0
    /\ index = <<>>
    /\ lines = None
    /\ connects = None
    /\ vertex_level = None

NextRenderer ==
    \/ RendererMesh
    \/ RendererSurface
    \/ RendererContour
    \/ RendererSphere
    \/ RendererQuiver3d
    \/ RendererShow
    \/ RendererClose

SpecRenderer == InitRenderer /\ [][NextRenderer]_vars

--------------------------------------------------------------------------
(* Properties of _isoline.  In a state reached by an iteration of the    *)
(* level loop, index is the mask of the level levels[lev_i] and the last *)
(* points of lines are the points of that level.                         *)

AfterLevel == pc \in {"loop", "returned"} /\ lev_i > 0

LastLevel == levels[lev_i]

\* the scalar of the vertex with index v
ScalarAt(v) == vertex_data[v + 1]

\* the triangle an edge belongs to, and the three edges of a triangle
TriOf(e) == ((e - 1) \div 3) + 1
EdgesOf(t) == {3 * (t - 1) + k : k \in 1..3}

\* the edges the mask selects, in increasing order
Selected ==
    LET RECURSIVE Go(_)
        Go(e) == IF e > Len(index) THEN <<>>
                 ELSE (IF index[e] THEN <<e>> ELSE <<>>) \o Go(e + 1)
    IN  Go(1)

\* the number of points the earlier levels left in lines
LevelBase == Len(Val(lines)) - Len(Selected)

\* p is the point of edge e at level lev by linear interpolation of the
\* scalars, stated without division:
\*   (s1 - s0) * (p - p0) = (lev - s0) * (p1 - p0)
OnEdgeAt(p, e, lev) ==
    LET s0 == ScalarAt(edges[e][1])
        s1 == ScalarAt(edges[e][2])
        p0 == vertices.row[edges[e][1] + 1]
        p1 == vertices.row[edges[e][2] + 1]
    IN  \A c \in 1..3 :
           /\ p[c][2] > 0
           /\ (s1 - s0) * (p[c][1] - p0[c] * p[c][2])
                 = (lev - s0) * (p1[c] - p0[c]) * p[c][2]

\* C1: for every level and every directed triangle edge (v_k, v_(k+1) mod 3),
\* the edge is selected iff exactly one of its two endpoint scalars is >= the
\* level; an edge whose endpoint scalars both equal the level is not selected.
C1_SelectedIffExactlyOneEndpointReaches ==
    AfterLevel =>
        /\ Len(edges) = 3 * Len(tris.row)
        /\ Len(index) = Len(edges)
        /\ \A t \in 1..Len(tris.row) : \A k \in 0..2 :
              edges[3 * (t - 1) + k + 1] =
                  <<tris.row[t][k + 1], tris.row[t][((k + 1) % 3) + 1]>>
        /\ \A e \in 1..Len(edges) :
              /\ index[e] <=>
                    Cardinality({c \in 1..2 :
                                    ScalarAt(edges[e][c]) >= LastLevel}) = 1
              /\ (ScalarAt(edges[e][1]) = LastLevel
                    /\ ScalarAt(edges[e][2]) = LastLevel) => ~index[e]

\* C1 witness: a level has selected an edge and passed over an edge whose two
\* endpoints both carry exactly the level.
C1_Witness ==
    /\ AfterLevel
    /\ \E e \in 1..Len(edges) : index[e]
    /\ \E e \in 1..Len(edges) :
          /\ edges[e][1] # edges[e][2]
          /\ ScalarAt(edges[e][1]) = LastLevel
          /\ ScalarAt(edges[e][2]) = LastLevel
          /\ ~index[e]

\* C2: at every level every triangle, a triangle that repeats a vertex
\* included, has 0 or 2 selected edges; so the points of a level are even in
\* number, and each segment (point 2i, point 2i+1) joins the points of two
\* edges of one triangle.
C2_CrossingsComeInPairsPerTriangle ==
    AfterLevel =>
        LET n == Len(Selected)
            base == LevelBase
        IN  /\ \A t \in 1..Len(tris.row) :
                  Cardinality({e \in EdgesOf(t) : index[e]}) \in {0, 2}
            /\ n % 2 = 0
            /\ base >= 0
            /\ base % 2 = 0
            /\ Len(Val(connects)) = (base + n) \div 2
            /\ \A i \in 1..(n \div 2) :
                  /\ TriOf(Selected[2 * i - 1]) = TriOf(Selected[2 * i])
                  /\ Val(connects)[(base \div 2) + i] =
                        <<base + 2 * i - 2, base + 2 * i - 1>>
                  /\ OnEdgeAt(Val(lines)[base + 2 * i - 1],
                              Selected[2 * i - 1], LastLevel)
                  /\ OnEdgeAt(Val(lines)[base + 2 * i],
                              Selected[2 * i], LastLevel)

\* C2 witness: one level has cut a triangle that repeats a vertex and a
\* triangle that does not.
C2_Witness ==
    /\ AfterLevel
    /\ \E t \in 1..Len(tris.row) :
          /\ tris.row[t][1] = tris.row[t][2]
          /\ Cardinality({e \in EdgesOf(t) : index[e]}) = 2
    /\ \E t \in 1..Len(tris.row) :
          /\ Cardinality({tris.row[t][k] : k \in 1..3}) = 3
          /\ Cardinality({e \in EdgesOf(t) : index[e]}) = 2

\* the arguments the documented preconditions reject
InvalidArguments ==
    \/ \E a \in ArgNames : ~is_ndarray[a]
    \/ tris.ncol # 3
    \/ Len(vertex_data) # Len(vertices.row)

\* C3: _isoline fails with an invalid-argument error (ValueError), and never
\* returns normally, whenever an argument is not an array, or the triangle
\* array is not M x 3, or the scalar array length differs from the number of
\* vertices.
C3_InvalidArgumentsRaise ==
    (InvalidArguments /\ pc \in {"loop", "returned", "raised"}) =>
        (pc = "raised" /\ exc = "ValueError")

\* C6: the connectivity array is exactly the rows (2k, 2k+1), k = 0 ..
\* n_segments - 1, in one index space shared by all levels (each level's pairs
\* start at the number of points of the earlier levels), the number of pairs
\* is half the number of points and every index is below the number of points.
C6_ConnectsContiguousAcrossLevels ==
    ~IsNone(connects) =>
        LET L == Val(lines)
            C == Val(connects)
        IN  /\ 2 * Len(C) = Len(L)
            /\ \A k \in 1..Len(C) :
                  /\ C[k] = <<2 * (k - 1), 2 * (k - 1) + 1>>
                  /\ C[k][1] < Len(L)
                  /\ C[k][2] < Len(L)

\* C6 witness: _isoline has returned points of two different levels.
C6_Witness ==
    /\ pc = "returned"
    /\ ~IsNone(vertex_level)
    /\ Cardinality({Val(vertex_level)[k] :
                       k \in 1..Len(Val(vertex_level))}) >= 2

\* the level l is the scalar of the vertex v and of no other vertex
IsolatedAt(v, l) ==
    /\ ScalarAt(v) = l
    /\ \A u \in 0..(Len(vertex_data) - 1) : u # v => ScalarAt(u) # l

Incident(e, v) == edges[e][1] = v \/ edges[e][2] = v

OtherEnd(e, v) == IF edges[e][1] = v THEN edges[e][2] ELSE edges[e][1]

\* the position of the vertex v as a point
PointOf(v) == [c \in 1..3 |-> <<vertices.row[v + 1][c], 1>>]

\* C7 as claimed: when the level is the scalar of exactly one vertex v, no
\* edge incident to v is selected, whatever the scalars of the neighbours.
C7_NoCrossingAtIsolatedVertex ==
    AfterLevel =>
        \A v \in 0..(Len(vertex_data) - 1) :
            IsolatedAt(v, LastLevel) =>
                \A e \in 1..Len(edges) : Incident(e, v) => ~index[e]

\* C7 as amended: when the level is the scalar of exactly one vertex v, an
\* edge incident to v is selected exactly when its other endpoint's scalar is
\* below the level, and the point emitted on it is the position of v.
C7_CrossingAtIsolatedVertexIffNeighbourBelow ==
    AfterLevel =>
        \A v \in 0..(Len(vertex_data) - 1) :
            IsolatedAt(v, LastLevel) =>
                /\ \A e \in 1..Len(edges) :
                      Incident(e, v) =>
                          (index[e] <=> ScalarAt(OtherEnd(e, v)) < LastLevel)
                /\ \A k \in 1..Len(Selected) :
                      Incident(Selected[k], v) =>
                          Val(lines)[LevelBase + k] = PointOf(v)

\* C7 witness: the level is the scalar of exactly one vertex, which has a
\* neighbour above the level and a neighbour below it.
C7_Witness ==
    /\ AfterLevel
    /\ \E v \in 0..(Len(vertex_data) - 1) :
          /\ IsolatedAt(v, LastLevel)
          /\ \E e \in 1..Len(edges) :
                Incident(e, v) /\ ScalarAt(OtherEnd(e, v)) > LastLevel
          /\ \E e \in 1..Len(edges) :
                Incident(e, v) /\ ScalarAt(OtherEnd(e, v)) < LastLevel

\* corner k of the only triangle is on the >= side of the level
SideOf(k) == ScalarAt(tris.row[1][k]) >= LastLevel

NextCorner(k) == (k % 3) + 1
PrevCorner(k) == ((k + 1) % 3) + 1

\* C8: for a single triangle with exactly one corner on one side of the level
\* and two on the other, the level yields exactly one segment, whose endpoints
\* are the linear-interpolation points of the two edges incident to the odd
\* corner; for the triangle (0,0,0), (1,0,0), (0,1,0) with scalars 0, 1, 0 and
\* level 0.5 they are the midpoints of the two edges at the scalar-1 vertex.
C8_SingleTriangleYieldsOneSegment ==
    /\ (AfterLevel /\ Len(tris.row) = 1) =>
          \A k \in 1..3 :
             (SideOf(k) # SideOf(NextCorner(k))
                /\ SideOf(k) # SideOf(PrevCorner(k))) =>
                 LET a == Min(k, PrevCorner(k))
                     b == Max(k, PrevCorner(k))
                 IN  /\ Selected = <<a, b>>
                     /\ LevelBase >= 0
                     /\ Len(Val(connects)) = (LevelBase \div 2) + 1
                     /\ Val(connects)[Len(Val(connects))] =
                           <<LevelBase, LevelBase + 1>>
                     /\ OnEdgeAt(Val(lines)[LevelBase + 1], a, LastLevel)
                     /\ OnEdgeAt(Val(lines)[LevelBase + 2], b, LastLevel)
                     /\ lev_i = 1 => Len(Val(lines)) = 2
    /\ (/\ AfterLevel
        /\ lev_i = 1
        /\ tris.row = << <<0, 1, 2>> >>
        /\ vertex_data = <<0, 2, 0>>
        /\ levels[1] = 1) =>
          /\ Val(lines) = << <<<<1, 2>>, <<0, 1>>, <<0, 1>>>>,
                             <<<<1, 2>>, <<1, 2>>, <<0, 1>>>> >>
          /\ Val(connects) = << <<0, 1>> >>

\* C8 witness: the documented example has returned.
C8_Witness ==
    /\ pc = "returned"
    /\ vertices.row = << <<0, 0, 0>>, <<1, 0, 0>>, <<0, 1, 0>> >>
    /\ tris.row = << <<0, 1, 2>> >>
    /\ vertex_data = <<0, 2, 0>>
    /\ levels = <<1>>
    /\ Len(Val(connects)) = 1

\* the level l is strictly below or strictly above every vertex scalar
LevelOutside(l) ==
    \/ \A v \in 1..Len(vertex_data) : l < vertex_data[v]
    \/ \A v \in 1..Len(vertex_data) : l > vertex_data[v]

OrEmpty(x) == IF IsNone(x) THEN Some(<<>>) ELSE x

\* C9: an iteration for a level strictly below or strictly above every vertex
\* scalar adds no point and no segment and raises nothing: the points, index
\* pairs and tags of the other levels stay as they were.
C9_LevelOutsideRangeAddsNothing ==
    [][(pc = "loop" /\ lev_i' = lev_i + 1 /\ LevelOutside(levels[lev_i + 1]))
          => /\ pc' = "loop"
             /\ exc' = "none"
             /\ lines' = OrEmpty(lines)
             /\ connects' = OrEmpty(connects)
             /\ vertex_level' = OrEmpty(vertex_level)]_vars

\* C9 witness: two levels were processed, one of them outside the range of
\* the scalars, and the result holds the points of the other.
C9_Witness ==
    /\ pc = "returned"
    /\ lev_i = 2
    /\ \E i \in 1..2 : LevelOutside(levels[i])
    /\ Len(Val(lines)) > 0

\* the edge (corner k, next corner) of triangle t has exactly one endpoint
\* scalar >= lev
CrossedAt(t, k, lev) ==
    (ScalarAt(tris.row[t][k]) >= lev)
        # (ScalarAt(tris.row[t][NextCorner(k)]) >= lev)

\* the crossings <<level number, triangle, corner>> of the levels processed
\* so far: level-major in the given order of levels, then by triangle, then
\* by the edges (v0,v1), (v1,v2), (v2,v0)
EncounterOrder ==
    LET nf == Len(tris.row)
        RECURSIVE Go(_)
        Go(m) ==
            IF m >= lev_i * 3 * nf THEN <<>>
            ELSE LET i == (m \div (3 * nf)) + 1
                     t == ((m % (3 * nf)) \div 3) + 1
                     k == (m % 3) + 1
                 IN  (IF CrossedAt(t, k, levels[i])
                      THEN << <<i, t, k>> >> ELSE <<>>) \o Go(m + 1)
    IN  Go(0)

\* p is the point at level lev of the segment from vertex v0 to vertex v1:
\*   (s1 - s0) * (p - p0) = (lev - s0) * (p1 - p0)
OnSegmentAt(p, v0, v1, lev) ==
    LET s0 == ScalarAt(v0)
        s1 == ScalarAt(v1)
        p0 == vertices.row[v0 + 1]
        p1 == vertices.row[v1 + 1]
    IN  \A c \in 1..3 :
           /\ p[c][2] > 0
           /\ (s1 - s0) * (p[c][1] - p0[c] * p[c][2])
                 = (lev - s0) * (p1[c] - p0[c]) * p[c][2]

\* C11: the points of lines are ordered level-major in the given order of the
\* levels (a level given twice yields its points twice, a larger level given
\* first comes first), within a level by the order of the triangles in tris,
\* and within a triangle by the edge order (v0,v1), (v1,v2), (v2,v0).
C11_PointsOrderedByLevelTriangleEdge ==
    (pc \in {"loop", "returned"} /\ ~IsNone(lines)) =>
        LET X == EncounterOrder
        IN  /\ Len(Val(lines)) = Len(X)
            /\ \A n \in 1..Len(X) :
                  OnSegmentAt(Val(lines)[n],
                              tris.row[X[n][2]][X[n][3]],
                              tris.row[X[n][2]][NextCorner(X[n][3])],
                              levels[X[n][1]])

\* C11 witness: two different triangles, each cut at both of two levels given
\* in decreasing order, have been returned.
C11_Witness ==
    /\ pc = "returned"
    /\ Len(levels) = 2
    /\ levels[1] > levels[2]
    /\ Len(tris.row) = 2
    /\ tris.row[1] # tris.row[2]
    /\ Len(Val(lines)) = 8

\* the triangle array with the vertex order of triangle t rotated:
\* (a, b, c) -> (b, c, a)
RotateTri(t) ==
    [ncol |-> tris.ncol,
     row |-> [k \in 1..Len(tris.row) |->
                 IF k = t
                 THEN <<tris.row[k][2], tris.row[k][3], tris.row[k][1]>>
                 ELSE tris.row[k]]]

\* the segments of a batch of points, as unordered pairs of positions
SegmentsOf(points) ==
    {{points[2 * i - 1], points[2 * i]} : i \in 1..(Len(points) \div 2)}

\* the points the last level appended to lines
LevelPoints == SubSeq(Val(lines), LevelBase + 1, Len(Val(lines)))

\* C12: for every level and every triangle t, the segments of the level, as
\* unordered pairs of endpoint positions, are the segments _isoline computes
\* at that level from the triangle array in which t is rotated
\* (a, b, c) -> (b, c, a).
C12_SegmentsInvariantUnderTriangleRotation ==
    (AfterLevel /\ tris.ncol = 3) =>
        \A t \in 1..Len(tris.row) :
            SegmentsOf(LevelPoints) =
                SegmentsOf(Point(Val(CheckVerticesShape(vertices)),
                                 vertex_data, Edges(RotateTri(t)), LastLevel))

\* C12 witness: a level has cut two different triangles, and the rotation of
\* the first changes the order of its crossing points.
C12_Witness ==
    /\ AfterLevel
    /\ Len(tris.row) = 2
    /\ tris.row[1] # tris.row[2]
    /\ Len(LevelPoints) = 4
    /\ LevelPoints #
          Point(Val(CheckVerticesShape(vertices)), vertex_data,
                Edges(RotateTri(1)), LastLevel)

C28_SelectedEdgesInterpolateWithinEdge ==
    AfterLevel =>
        \A k \in 1..Len(Selected) :
            LET e == Selected[k]
                s0 == ScalarAt(edges[e][1])
                s1 == ScalarAt(edges[e][2])
                n == LastLevel - s0
                d == s1 - s0
                p == Val(lines)[LevelBase + k]
            IN  /\ d # 0
                /\ IF d > 0 THEN 0 <= n /\ n <= d ELSE d <= n /\ n <= 0
                /\ \A c \in 1..3 : p[c][2] > 0
                /\ OnEdgeAt(p, e, LastLevel)

\* C28 witness: a level has selected an edge it cuts strictly inside and an
\* edge it cuts at an endpoint.
C28_Witness ==
    /\ AfterLevel
    /\ \E k \in 1..Len(Selected) :
          LET e == Selected[k]
          IN  /\ ScalarAt(edges[e][1]) # LastLevel
              /\ ScalarAt(edges[e][2]) # LastLevel
    /\ \E k \in 1..Len(Selected) :
          LET e == Selected[k]
          IN  \/ ScalarAt(edges[e][1]) = LastLevel
              \/ ScalarAt(edges[e][2]) = LastLevel

--------------------------------------------------------------------------
(* Properties of _create_sphere and _Renderer.sphere.                    *)

SphereCreated == sph_pc \in {"created", "accumulate", "plotted"}

\* C4: for rows >= 1 and cols >= 3 every triangle index of the returned mesh
\* is within [0, n_vertices) and no triangle lists a vertex index twice.
C4_SphereFacesInRangeAndDistinct ==
    (SphereCreated /\ rows >= 1 /\ cols >= 3) =>
        \A k \in 1..Len(faces) :
            /\ \A x \in 1..3 : faces[k][x] >= 0 /\ faces[k][x] < Len(verts)
            /\ Cardinality({faces[k][x] : x \in 1..3}) = 3

\* C4 witness: a sphere with triangles at both poles has been returned.
C4_Witness ==
    /\ sph_pc = "created"
    /\ rows >= 2
    /\ cols >= 3
    /\ \E k \in 1..Len(faces) : \E x \in 1..3 : faces[k][x] = 0
    /\ \E k \in 1..Len(faces) : \E x \in 1..3 : faces[k][x] = Len(verts) - 1

\* C5: for n centers the sphere operation accumulates exactly n * n_vertices
\* vertices and n * n_faces triangles, and every triangle of replica i has
\* its three indices in [i * n_vertices, (i + 1) * n_vertices).
C5_ReplicasKeepToTheirVertexBlock ==
    sph_pc = "plotted" =>
        LET n == Len(center)
            nv == Len(verts)
            nf == Len(faces)
        IN  /\ Len(acc_vertices) = n * nv
            /\ Len(acc_faces) = n * nf
            /\ voffset = n * nv
            /\ foffset = n * nf
            /\ \A k \in 1..Len(acc_vertices) : acc_vertices[k] # <<>>
            /\ \A i \in 0..(n - 1) : \A k \in (i * nf + 1)..((i + 1) * nf) :
                  /\ Len(acc_faces[k]) = 3
                  /\ \A x \in 1..3 :
                        /\ acc_faces[k][x] >= i * nv
                        /\ acc_faces[k][x] < (i + 1) * nv

\* C5 witness: two spheres with triangles have been accumulated.
C5_Witness ==
    /\ sph_pc = "plotted"
    /\ Len(center) = 2
    /\ Len(faces) > 0
    /\ Len(acc_faces) = 2 * Len(faces)

\* C10: the mesh _create_sphere returns for rows >= 2 and cols >= 3, given to
\* _isoline with a constant scalar field c, yields no point and no segment at
\* any level, the level c included.
C10_ConstantFieldOnSphereHasNoSegments ==
    (sph_pc = "created" /\ rows >= 2 /\ cols >= 3) =>
        /\ pc \in {"idle", "call", "loop", "returned"}
        /\ (pc \in {"loop", "returned"} /\ lev_i > 0) =>
              (Val(lines) = <<>> /\ Val(connects) = <<>>)
        /\ pc = "returned" => lev_i = Len(levels)

\* C10 witness: _isoline has returned from a sphere mesh with triangles after
\* two levels, one of them the constant of the field.
C10_Witness ==
    /\ sph_pc = "created"
    /\ rows >= 2
    /\ pc = "returned"
    /\ Len(tris.row) > 0
    /\ tris.row = faces
    /\ lev_i = 2
    /\ \E i \in 1..2 : levels[i] = vertex_data[1]


\* the translations applied to the centers
Shifts == {<<0, 0, 0>>, <<1, 0, 0>>, <<2, -1, 3>>}

VecAdd(a, b) == [r \in 1..3 |-> a[r] + b[r]]

\* the coordinate f moved by d
MovedBy(f, d) == <<f[1], f[2], f[3], f[4] + d>>

\* C13: translating every center by the same vector D translates every
\* accumulated vertex by exactly D (each coordinate stays the coordinate of the
\* canonical vertex plus the center), and the accumulated triangle indices do
\* not depend on the centers: they are the canonical indices plus i * n_vertices.
C13_TranslatedCentersTranslateVertices ==
    sph_pc \in {"accumulate", "plotted"} =>
        \A i \in 0..(center_i - 1) :
            /\ \A k \in 1..Len(verts) : \A D \in Shifts :
                  LET here == acc_vertices[i * Len(verts) + k]
                      moved == Translate(verts, VecAdd(center[i + 1], D))[k]
                  IN  /\ here.v = verts[k]
                      /\ moved.v = here.v
                      /\ here.p = << <<1, 0, 0, center[i + 1][1]>>,
                                     <<0, 1, 0, center[i + 1][2]>>,
                                     <<0, 0, 1, center[i + 1][3]>> >>
                      /\ \A r \in 1..3 : moved.p[r] = MovedBy(here.p[r], D[r])
            /\ \A k \in 1..Len(faces) : \A x \in 1..3 :
                  acc_faces[i * Len(faces) + k][x] =
                      faces[k][x] + i * Len(verts)

\* C13 witness: two spheres at different centers have been accumulated.
C13_Witness ==
    /\ sph_pc = "plotted"
    /\ Len(center) = 2
    /\ center[1] # center[2]
    /\ center[1] # <<0, 0, 0>>
    /\ Len(faces) > 0
    /\ Len(acc_vertices) = 2 * Len(verts)

\* C14: for rows >= 1 and cols >= 3 _create_sphere returns exactly
\* (rows + 1) * cols - 2 * (cols - 1) vertices, one of them on the top ring and
\* one on the bottom ring, and exactly rows * 2 * cols - 2 * cols triangles.
C14_SphereVertexAndFaceCounts ==
    (SphereCreated /\ rows >= 1 /\ cols >= 3) =>
        /\ Len(verts) = (rows + 1) * cols - 2 * (cols - 1)
        /\ Len(faces) = rows * 2 * cols - 2 * cols
        /\ Cardinality({k \in 1..Len(verts) : verts[k][1] = 0}) = 1
        /\ Cardinality({k \in 1..Len(verts) : verts[k][1] = rows}) = 1

\* C14 witness: a sphere of at least two ring gaps and four columns has been
\* returned.
C14_Witness ==
    /\ sph_pc = "created"
    /\ rows >= 2
    /\ cols >= 4
    /\ Len(verts) > 2
    /\ Len(faces) > 0

\* the slot of the kept vertices that holds ring i, column j of the grid of
\* (rows + 1) * cols generated vertices
KeptSlot(i, j) ==
    IF i = 0 THEN 0
    ELSE IF i = rows THEN Len(verts) - 1
    ELSE 1 + (i - 1) * cols + j

\* C20: for rows >= 2 and cols >= 3 the trimming step maps every index of a
\* retained triangle to the slot where the vertex it referred to is kept: a
\* top-ring index to 0, a bottom-ring index to n_vertices - 1, and the index
\* of ring i (1 <= i <= rows - 1), column j to 1 + (i - 1) * cols + j.
C20_RemappingKeepsReferredVertex ==
    [][(sph_pc = "faces" /\ sph_pc' \in {"created", "accumulate"}
          /\ rows >= 2 /\ cols >= 3) =>
          /\ Len(faces') = Len(faces) - 2 * cols
          /\ \A k \in 1..Len(faces') : \A x \in 1..3 :
                LET f == faces[k + cols][x]
                    i == f \div cols
                    j == f % cols
                IN  /\ f >= 0
                    /\ i <= rows
                    /\ faces'[k][x] = KeptSlot(i, j)
                    /\ verts[faces'[k][x] + 1][1] = i
                    /\ (i > 0 /\ i < rows) =>
                          verts[faces'[k][x] + 1] = <<i, j>>]_vars

\* C20 witness: a returned sphere has triangles at the top pole, at the bottom
\* pole and between two rings that are not poles.
C20_Witness ==
    /\ sph_pc = "created"
    /\ rows >= 3
    /\ cols >= 3
    /\ \E k \in 1..Len(faces) : \E x \in 1..3 : faces[k][x] = 0
    /\ \E k \in 1..Len(faces) : \E x \in 1..3 : faces[k][x] = Len(verts) - 1
    /\ \E k \in 1..Len(faces) :
          \A x \in 1..3 : faces[k][x] > 0 /\ faces[k][x] < Len(verts) - 1

\* C21: for cols = 1 or cols = 2 and rows >= 2, _create_sphere does not fail
\* and every triangle index it returns is inside [0, n_vertices): none is a
\* wrapped-around uint32 value (held here as a negative integer) and none
\* names a removed vertex.
C21_LowResolutionIndicesStayValid ==
    (rows >= 2 /\ cols \in {1, 2} /\ caller = "direct") =>
        /\ sph_pc # "raised"
        /\ sph_pc = "created" =>
              \A k \in 1..Len(faces) : \A x \in 1..3 :
                  faces[k][x] >= 0 /\ faces[k][x] < Len(verts)

--------------------------------------------------------------------------
(* Properties of the backend selection.  A step is a call of             *)
(* set_3d_backend when it leaves last_call.op = "set", and a reload when *)
(* it leaves last_call.op = "reload".                                    *)

\* C16: set_3d_backend called with a name that is not a valid backend (an
\* unknown string, or the integer 1) raises ValueError and leaves the backend
\* get_3d_backend() reports, and the rest of the module's globals, unchanged.
C16_InvalidNameRaisesAndKeepsBackend ==
    [][(last_call'.op = "set" /\ last_call'.arg \notin VALID_3D_BACKENDS) =>
          /\ last_call'.exc = "ValueError"
          /\ Get3dBackend' = Get3dBackend
          /\ Renderer' = Renderer
          /\ TEST_MNE_3D_BACKEND' = TEST_MNE_3D_BACKEND]_vars

\* C16 witness: set_3d_backend(1) has raised ValueError while a backend other
\* than the default was selected, and that backend is still reported.
C16_Witness ==
    /\ last_call = [op |-> "set", arg |-> "1", exc |-> "ValueError"]
    /\ Get3dBackend = Some("vispy")
    /\ Renderer = Some("vispy")

\* C17 as claimed: a set_3d_backend(b) call that returns normally leaves
\* get_3d_backend() = b and the _Renderer of b; right after such a call, a
\* set_3d_backend call that raises leaves both as they are (they hold until
\* the next successful set), and a second set_3d_backend(b) leaves the state
\* of the first.
C17_SuccessfulSetHoldsUntilNextSuccess ==
    [][last_call'.op = "set" =>
          /\ last_call'.exc = "none" =>
                /\ Get3dBackend' = Some(last_call'.arg)
                /\ Renderer' = Some(last_call'.arg)
          /\ (last_call.op = "set" /\ last_call.exc = "none") =>
                /\ last_call'.exc # "none" =>
                      /\ Get3dBackend' = Some(last_call.arg)
                      /\ Renderer' = Some(last_call.arg)
                /\ last_call'.arg = last_call.arg =>
                      /\ last_call'.exc = "none"
                      /\ Get3dBackend' = Get3dBackend
                      /\ Renderer' = Renderer
                      /\ TEST_MNE_3D_BACKEND' = TEST_MNE_3D_BACKEND]_vars

\* C18: a reload of the module while its global MNE_3D_BACKEND is unbound
\* takes the backend from the environment variable: for a valid value b both
\* the global and get_3d_backend() are b afterwards, and an invalid value
\* makes the reload raise ValueError; a reload while the global is bound
\* keeps its value and does not read the environment.  The first import is a
\* load with the global unbound.
C18_ReloadReadsEnvironmentOnlyWhenUnbound ==
    /\ (~IsNone(environ) /\ last_call.op = "import") =>
          /\ Val(environ) \in VALID_3D_BACKENDS
          /\ MNE_3D_BACKEND = environ
          /\ Get3dBackend = environ
    /\ [][last_call'.op = "reload" =>
             /\ (IsNone(MNE_3D_BACKEND) /\ ~IsNone(environ)) =>
                   IF Val(environ) \in VALID_3D_BACKENDS
                   THEN /\ MNE_3D_BACKEND' = environ
                        /\ Get3dBackend' = environ
                        /\ last_call'.exc # "ValueError"
                   ELSE /\ last_call'.exc = "ValueError"
                        /\ IsNone(MNE_3D_BACKEND')
             /\ ~IsNone(MNE_3D_BACKEND) =>
                   /\ MNE_3D_BACKEND' = MNE_3D_BACKEND
                   /\ Get3dBackend' = Get3dBackend
                   /\ last_call'.exc # "ValueError"]_vars

\* C18 witness: with the global deleted and the environment naming a backend
\* other than the default, a reload has bound the global to that backend.
C18_Witness ==
    /\ last_call = [op |-> "reload", arg |-> "", exc |-> "none"]
    /\ mocked
    /\ environ = Some("vispy")
    /\ MNE_3D_BACKEND = Some("vispy")
    /\ Renderer = Some("vispy")

\* C27: use_3d_backend(b) and use_test_3d_backend(b) make get_3d_backend()
\* return b when the block is entered; when the block completes normally
\* the backend selected before the innermost open context is restored; when
\* the body raises, the restore is skipped and get_3d_backend() returns
\* what it returned in the block.
C27_ContextRestoresOnlyOnNormalExit ==
    [][/\ (last_call'.op = "enter" /\ Len(ctx_stack') > Len(ctx_stack)) =>
              /\ Get3dBackend' = Some(last_call'.arg)
              /\ ctx_stack' = <<Val(Get3dBackend)>> \o ctx_stack
       /\ (last_call'.op = "exit" /\ Len(ctx_stack') < Len(ctx_stack)) =>
              /\ Get3dBackend' = Some(Head(ctx_stack))
              /\ ctx_stack' = Tail(ctx_stack)
       /\ (last_call'.op = "raise" /\ Len(ctx_stack') < Len(ctx_stack)) =>
              /\ Get3dBackend' = Get3dBackend
              /\ ctx_stack' = Tail(ctx_stack)]_vars

\* the body of a context that changed the backend raised: the backend of
\* the block is still selected
C27_Witness ==
    /\ last_call.op = "raise"
    /\ Get3dBackend # Some(last_call.arg)
    /\ ctx_stack # <<>>

--------------------------------------------------------------------------
(* Properties of the time viewer's colorbar sliders.                     *)

Ordered(d) == d.fmin <= d.fmid /\ d.fmid <= d.fmax

\* the key a callback bumps upwards, downwards
BumpedUp(name) == IF name = "fmin" THEN {"fmid", "fmax"}
                  ELSE IF name = "fmid" THEN {"fmax"} ELSE {}

BumpedDown(name) == IF name = "fmax" THEN {"fmin", "fmid"}
                    ELSE IF name = "fmid" THEN {"fmin"} ELSE {}

\* C22: from brain values with fmin <= fmid <= fmax, after any sequence of
\* BumpColorbarPoints callbacks, throttled or not, the values stored in the
\* brain satisfy fmin <= fmid <= fmax.
C22_BrainValuesStayOrdered == Ordered(brain_data)

\* a throttled callback has bumped the brain's other keys
C22_Witness ==
    /\ cb_last.name = "fmin"
    /\ ~cb_last.applied
    /\ brain_data.fmid = cb_last.value
    /\ brain_data.fmin < cb_last.value

\* C23: after any sequence of callbacks the values shown by the three
\* sliders satisfy fmin <= fmid <= fmax.
C23_DisplayedValuesStayOrdered == Ordered(slider_rep)

\* C26: a callback stores its own value in the brain only when more than
\* 1/60 s passed since the slider's last applied update; a sooner callback
\* leaves the brain's own key unchanged, and either way sets its display and
\* bumps the other two keys.
C26_OwnValueThrottled ==
    [][now' = now =>
        LET name == cb_last'.name
            v == cb_last'.value
            late == now - last_update[name] > Throttle
        IN  /\ slider_rep'[name] = v
            /\ cb_last'.applied = late
            /\ late => brain_data'[name] = v /\ last_update'[name] = now
            /\ ~late => /\ brain_data'[name] = brain_data[name]
                        /\ last_update' = last_update
            /\ \A k \in BumpedUp(name) :
                  /\ brain_data'[k] = Max(brain_data[k], v)
                  /\ brain_data[k] < v => slider_rep'[k] = v
            /\ \A k \in BumpedDown(name) :
                  /\ brain_data'[k] = Min(brain_data[k], v)
                  /\ brain_data[k] > v => slider_rep'[k] = v]_vars

\* after a throttled callback the brain's own key differs from the display
C26_Witness ==
    /\ cb_last.name # "none"
    /\ ~cb_last.applied
    /\ brain_data[cb_last.name] # slider_rep[cb_last.name]
    /\ \E k \in Keys \ {cb_last.name} : brain_data[k] = cb_last.value

--------------------------------------------------------------------------
(* Properties of the time viewer's playback.                             *)

\* the step is a call of play()
PlayStep == pb_last'.op = "play" /\ now' = now

C25_ToggleAtEndRestartsAtIndexZero ==
    [][(~playback /\ playback' /\ current_time = R(SeqMax(time_data))) =>
        pb_last'.arg = Some(R(0))]_vars

--------------------------------------------------------------------------
(* Properties of the ipyvolume renderer.                                 *)

LimitsContainScene ==
    /\ self_vmin <= 0
    /\ 0 <= self_vmax
    /\ \A x \in plotted : self_vmin <= x /\ x <= self_vmax

\* C29: after any sequence of mesh, surface, sphere, contour and quiver3d
\* calls vmin <= 0 <= vmax and [vmin, vmax] contains every plotted
\* coordinate; no operation, close() included, raises vmin or lowers vmax.
C29_LimitsContainSceneAndOnlyWiden ==
    /\ LimitsContainScene
    /\ [][/\ LimitsContainScene'
          /\ self_vmin' <= self_vmin
          /\ self_vmax' >= self_vmax]_vars

\* the scene was closed after its limits were widened on both sides
C29_Witness ==
    /\ rn_last.op = "close"
    /\ self_vmin < 0
    /\ self_vmax > 0
    /\ self_vmin \in plotted
    /\ self_vmax \in plotted

\* C30: quiver3d draws each glyph at position + (scale / 2) * direction; the
\* shift is applied in place to the caller's x, y, z arrays, and u, v, w are
\* unchanged.  Positions are counted in units of 1/2.
C30_QuiverShiftsCallerArraysInPlace ==
    [][(rn_last'.op = "quiver3d" /\ n_calls' = n_calls + 1) =>
        /\ \A c \in 1..3 :
              /\ Len(qpos'[c]) = Len(qpos[c])
              /\ \A i \in 1..Len(qpos[c]) :
                    /\ qpos'[c][i] = qpos[c][i] + rn_last'.arg * qdir[c][i]
                    /\ qpos'[c][i] \in plotted'
        /\ qdir' = qdir]_vars

\* the same arrays were given to quiver3d twice, with scale 1 and scale 2
C30_Witness ==
    /\ rn_last.op = "quiver3d"
    /\ n_calls = 2
    /\ qdir = <<<<1>>, <<0>>, <<-1>>>>
    /\ qpos = <<<<3>>, <<0>>, <<-3>>>>

==========================================================================
